---- MODULE Spec2Model ----
(***************************************************************************)
(* Model of the Concourse provider adapter of the CI gateway:              *)
(*   - TokenManager (GetToken / InvalidateToken / refreshToken), the       *)
(*     credential cache guarded by a sync.RWMutex;                         *)
(*   - Client.doRequest, the authenticated call with its retry after 401,  *)
(*     seen through a client wrapper (GetBuild, AbortBuild) and the HTTP   *)
(*     layer's handleServiceError;                                         *)
(*   - ConcourseRunRef.ID / ParseRunRef, the run identifier codec;         *)
(*   - Service (TriggerRun, GetRun, StreamRunEvents, CancelRun) over the   *)
(*     Adapter, with the calls of the Client as its steps;                 *)
(*   - mapStatus, mapBuildToRun, parseError and the handlers' answer to an *)
(*     error, each applied to one input.                                   *)
(*                                                                         *)
(* Strings of the codec are sequences of one-character strings.  A token   *)
(* is "" (none), "static" (the configured bearer token) or the decimal     *)
(* number of the fetch that delivered it: a token names its fetch.         *)
(***************************************************************************)
EXTENDS Integers, Sequences, FiniteSets, TLC

VARIABLES
    static,     \* TokenManager.bearerToken != ""
    margin,     \* TokenManager.refreshMargin
    token,      \* TokenManager.token
    expiry,     \* TokenManager.tokenExpiry
    readers,    \* goroutines holding tm.mu for reading
    writer,     \* goroutines holding tm.mu for writing (at most one)
    now,        \* time.Now()
    nFetch,     \* calls of fetchTokenFromConcourse so far
    issued,     \* tokens that were ever cached
    cleared,    \* tokens that InvalidateToken was called on
    ops,        \* the operations the goroutines of this run call
    budget,     \* operations the goroutines may still start
    th,         \* per goroutine: position and locals of its operation
    codec,      \* the run identifier codec's input and results
    svc,        \* the service layer: its requests and the backend's record of calls
    fn,         \* a mapping function's input and result
    stream,     \* one StreamBuildEvents call: its copy loop, the body, the sink
    gw          \* Gateway.Start: its goroutines, the result channel, the server

vars == <<static, margin, token, expiry, readers, writer, now, nFetch,
          issued, cleared, ops, budget, th, codec, svc, fn, stream, gw>>

tmVars == <<static, margin, token, expiry, readers, writer, now, nFetch,
            issued, cleared, ops, budget, th>>

-----------------------------------------------------------------------------
(* Bounds *)

NThreads == 2
MaxOps == 3
MaxRequests == 2
MaxTime == 2
MaxMargin == 1
MaxExpiresIn == 2
MaxNameLen == 2
MaxNumLen == 3
MaxStrLen == 5
MaxBuildID == 12
MaxUnixTime == 2
MaxSvcRequests == 2
MaxEvents == 1
MaxItems == 2
MaxLines == 2
MaxLineLen == 2
MaxScanTokenSize == 2
MaxConns == 2

Threads == 1..NThreads

-----------------------------------------------------------------------------
(* Program constants *)

EmptyToken == ""
StaticToken == "static"
ZeroTime == 0
StaticLifetime == 365 * 24
\* a token that an earlier fetch delivered and that has expired since
OldToken == "0"

\* the capacity of Start's result channel
ServerErrorsCap == 1

StatusOK == 200
StatusCreated == 201
StatusNoContent == 204
StatusUnauthorized == 401
StatusForbidden == 403
StatusNotFound == 404
StatusInternalServerError == 500
StatusBadGateway == 502
StatusServiceUnavailable == 503

\* The statuses the modelled backend answers with.
Statuses == {StatusOK, StatusUnauthorized, StatusServiceUnavailable}

-----------------------------------------------------------------------------
(* Errors: a kind and, for a ProviderError, the backend's status code. *)

NoError == [kind |-> "nil", code |-> 0]
ErrRunNotFound == [kind |-> "provider.ErrRunNotFound", code |-> 0]
ErrUnauthorized == [kind |-> "provider.ErrUnauthorized", code |-> 0]
ErrProviderUnavailable == [kind |-> "provider.ErrProviderUnavailable", code |-> 0]
ProviderError(c) == [kind |-> "provider.ProviderError", code |-> c]
ServiceErrJobNotFound == [kind |-> "service.ErrJobNotFound", code |-> 0]
ServiceErrRunNotFound == [kind |-> "service.ErrRunNotFound", code |-> 0]
ProviderErrJobNotFound == [kind |-> "provider.ErrJobNotFound", code |-> 0]
\* fmt.Errorf("build job ref: %w") around the error of buildJobRef
BuildJobRefError == [kind |-> "build job ref", code |-> 0]
\* fmt.Errorf("decode build response: %w") / fmt.Errorf("decode build: %w")
DecodeError == [kind |-> "decode build", code |-> 0]
\* the error of http.Client.Do, returned as it is
TransportError == [kind |-> "transport", code |-> 0]
\* fmt.Errorf("get token: %w") / fmt.Errorf("refresh token: %w")
GetTokenError == [kind |-> "get token", code |-> 0]
RefreshTokenError == [kind |-> "refresh token", code |-> 0]

\* (mutant) every status as a ProviderError
parseErrorAllProvider(status) == ProviderError(status)

\* parseError
parseError(status) ==
    CASE status = StatusNotFound -> ErrRunNotFound
      [] status \in {StatusUnauthorized, StatusForbidden} -> ErrUnauthorized
      [] status \in {StatusBadGateway, StatusServiceUnavailable} -> ErrProviderUnavailable
      [] OTHER -> ProviderError(status)

\* The statuses a client wrapper takes for success.
SuccessStatuses(call) ==
    CASE call = "CreateBuild" -> {StatusCreated, StatusOK}
      [] call = "GetBuild" -> {StatusOK}
      [] call = "AbortBuild" -> {StatusNoContent, StatusOK}
      [] OTHER -> {StatusOK}

\* The error a client wrapper returns for the final response of doRequest.
WrapperResult(call, status) ==
    IF status \in SuccessStatuses(call) THEN NoError ELSE parseError(status)

\* (mutant) every code of the backend passed through
ProviderCodePassesAlways(code) == TRUE

\* handleServiceError line 371: the codes the gateway answers with itself
ProviderCodePassesThrough(code) == code >= 400 /\ code < 500

\* handleServiceError: the HTTP status and message for an error.
handleServiceError(err) ==
    CASE err.kind \in {"service.ErrJobNotFound"} ->
            [status |-> StatusNotFound, message |-> "job not found"]
      [] err.kind = "service.ErrRunNotFound" ->
            [status |-> StatusNotFound, message |-> "run not found"]
      [] err.kind = "provider.ErrJobNotFound" ->
            [status |-> StatusNotFound, message |-> "job not found in provider"]
      [] err.kind = "provider.ErrRunNotFound" ->
            [status |-> StatusNotFound, message |-> "run not found in provider"]
      [] err.kind = "provider.ErrUnauthorized" ->
            [status |-> StatusUnauthorized, message |-> "provider authentication failed"]
      [] err.kind = "provider.ErrProviderUnavailable" ->
            [status |-> StatusBadGateway, message |-> "provider temporarily unavailable"]
      [] err.kind = "provider.ProviderError" ->
            IF ProviderCodePassesThrough(err.code)
            THEN [status |-> err.code, message |-> "provider message"]
            ELSE [status |-> StatusBadGateway, message |-> "provider error"]
      [] OTHER ->
            [status |-> StatusInternalServerError, message |-> "internal server error"]

-----------------------------------------------------------------------------
(* TokenManager *)

\* tm.token != "" && time.Now().Before(tm.tokenExpiry.Add(-tm.refreshMargin))
Valid == token # EmptyToken /\ now < expiry - margin

\* (mutant) GetToken never takes the cached token
FastPathNever == FALSE

\* the check of GetToken, under the read lock
FastPathValid == Valid

\* (mutant) refreshToken without its double-check
DoubleCheckNever == FALSE

\* the check of refreshToken, under the write lock
DoubleCheckValid == Valid

\* (mutant) a read lock that a writer does not exclude
CanRLockUnguarded == TRUE

\* tm.mu.RLock() returns
CanRLock == writer = {}

\* (mutant) a write lock that excludes nobody
CanLockUnguarded == TRUE

\* tm.mu.Lock() returns
CanLock == writer = {} /\ readers = {}

\* (mutant) a deferred unlock that is never run
UnlockForgotten(w, t) == w

\* defer tm.mu.Unlock(): the write lock after goroutine t released it
Unlock(w, t) == w \ {t}

\* (mutant) a failed fetch that empties the cached token
FailedFetchTokenCleared(tk) == EmptyToken

\* What refreshToken leaves in tm.token when the fetch fails.
FailedFetchToken(tk) == tk

\* The token a fetch delivers: the number of the fetch among those delivered.
NewToken == ToString(Cardinality(issued \ {StaticToken, OldToken}) + 1)

\* (mutant) InvalidateToken that resets the expiry only
InvalidatedTokenKept(tk) == tk

\* (mutant) InvalidateToken that clears the token only
InvalidatedExpiryKept(ex) == ex

\* What InvalidateToken leaves in tm.token and tm.tokenExpiry.
InvalidatedToken(tk) == EmptyToken
InvalidatedExpiry(ex) == ZeroTime

\* The calls of the client that go through doRequest in this model.
Calls == {"GetBuild"}

\* The body argument of doRequest: nil, or a bytes.Reader over the marshalled
\* parameters; a reader that has been read to its end yields nothing more.
NilBody == "nil"
ParamsBody == "{\"k\":\"v\"}"
DrainedBody == ""

\* CreateBuild passes a body only when there are parameters; the other calls
\* pass nil.
RequestBodies(call) == IF call = "CreateBuild" THEN {NilBody, ParamsBody} ELSE {NilBody}

\* req.Body after httpClient.Do has sent the request: the transport has read
\* the reader to its end, and doRequest never rewinds or replaces it.
AfterDo(unread) == IF unread = NilBody THEN NilBody ELSE DrainedBody

Idle ==
    [pc |-> "idle", op |-> "none", call |-> "none",
     tok |-> EmptyToken,    \* the token GetToken returned last
     att |-> <<>>,          \* the HTTP attempts of doRequest, in order
     nInv |-> 0,            \* InvalidateToken calls of this operation
     seenAtInv |-> {},      \* the tokens issued before its InvalidateToken
     res |-> NoError,       \* what the operation returned
     path |-> "none",       \* how its last GetToken returned
     fexp |-> ZeroTime,     \* the expiry of the token its last GetToken fetched
     clrAtStart |-> {},     \* the tokens invalidated before its last GetToken began
     body |-> NilBody,      \* the body CreateBuild hands doRequest
     unread |-> NilBody]    \* what is left to read of req.Body

\* NewTokenManager
TMInit(allowed, n, expired) ==
    /\ static \in BOOLEAN
    /\ margin \in 0..MaxMargin
    /\ now = 0
    /\ IF static
       THEN token = StaticToken /\ expiry = now + StaticLifetime
       ELSE \/ token = EmptyToken /\ expiry = ZeroTime
            \/ expired /\ token = OldToken /\ expiry \in now..(now + margin)
    /\ readers = {}
    /\ writer = {}
    /\ nFetch = 0
    /\ issued = IF token = EmptyToken THEN {} ELSE {token}
    /\ cleared = {}
    /\ ops = allowed
    /\ budget = n
    /\ th = [t \in Threads |-> Idle]

\* A goroutine calls GetToken, InvalidateToken or a client call.
Begin(t) ==
    /\ th[t].pc \in {"idle", "done"}
    /\ budget > 0
    /\ \E op \in ops :
       \E call \in (IF op = "req" THEN Calls
                    ELSE IF op = "create" THEN {"CreateBuild"} ELSE {"none"}) :
       \E b \in RequestBodies(call) :
          th' = [th EXCEPT ![t] = [Idle EXCEPT
                    !.pc = IF op = "inv" THEN "i_lock" ELSE "g_rlock",
                    !.op = op, !.call = call, !.clrAtStart = cleared,
                    !.body = b, !.unread = b]]
    /\ budget' = budget - 1
    /\ UNCHANGED <<static, margin, token, expiry, readers, writer, now, nFetch,
                   issued, cleared, ops, codec, svc, fn, stream, gw>>

\* GetToken returns (tk, failed) to its caller: the goroutine itself, or
\* doRequest before its first or its second attempt.
GetTokenReturn(r, tk, failed, how) ==
    LET r1 == [r EXCEPT !.tok = tk, !.path = how] IN
    IF r.op = "get"
    THEN [r1 EXCEPT !.pc = "done",
                    !.res = IF failed THEN GetTokenError ELSE NoError]
    ELSE IF failed
    THEN [r1 EXCEPT !.pc = "done",
                    !.res = IF Len(r.att) = 0 THEN GetTokenError ELSE RefreshTokenError]
    ELSE [r1 EXCEPT !.pc = "send"]

\* GetToken: tm.mu.RLock()
RLock(t) ==
    /\ th[t].pc = "g_rlock"
    /\ CanRLock
    /\ readers' = readers \cup {t}
    /\ th' = [th EXCEPT ![t].pc = "g_check"]
    /\ UNCHANGED <<static, margin, token, expiry, writer, now, nFetch,
                   issued, cleared, ops, budget, codec, svc, fn, stream, gw>>

\* GetToken: the check under the read lock, tm.mu.RUnlock(), and either the
\* return of the cached token or the call of refreshToken
FastPath(t) ==
    /\ th[t].pc = "g_check"
    /\ readers' = readers \ {t}
    /\ th' = [th EXCEPT ![t] =
                IF FastPathValid
                THEN GetTokenReturn(@, token, FALSE, "fast")
                ELSE [@ EXCEPT !.pc = "r_lock"]]
    /\ UNCHANGED <<static, margin, token, expiry, writer, now, nFetch,
                   issued, cleared, ops, budget, codec, svc, fn, stream, gw>>

\* refreshToken: tm.mu.Lock()
Lock(t) ==
    /\ th[t].pc = "r_lock"
    /\ CanLock
    /\ writer' = writer \cup {t}
    /\ th' = [th EXCEPT ![t].pc = "r_check"]
    /\ UNCHANGED <<static, margin, token, expiry, readers, now, nFetch,
                   issued, cleared, ops, budget, codec, svc, fn, stream, gw>>

\* refreshToken: the double-check under the write lock; the cached token is
\* returned (and the lock released), or the fetch begins
DoubleCheck(t) ==
    /\ th[t].pc = "r_check"
    /\ IF DoubleCheckValid
       THEN /\ th' = [th EXCEPT ![t] = GetTokenReturn(@, token, FALSE, "dbl")]
            /\ writer' = Unlock(writer, t)
            /\ UNCHANGED nFetch
       ELSE /\ th' = [th EXCEPT ![t].pc = "r_fetch"]
            /\ nFetch' = nFetch + 1
            /\ UNCHANGED writer
    /\ UNCHANGED <<static, margin, token, expiry, readers, now,
                   issued, cleared, ops, budget, codec, svc, fn, stream, gw>>

\* refreshToken: fetchTokenFromConcourse returns an error
FetchFail(t) ==
    /\ th[t].pc = "r_fetch"
    /\ th' = [th EXCEPT ![t] = GetTokenReturn(@, EmptyToken, TRUE, "err")]
    /\ writer' = Unlock(writer, t)
    /\ token' = FailedFetchToken(token)
    /\ UNCHANGED <<static, margin, expiry, readers, now, nFetch,
                   issued, cleared, ops, budget, codec, svc, fn, stream, gw>>

\* refreshToken: fetchTokenFromConcourse returns a TokenResponse, whose
\* access_token may be missing; the token and its expiry are stored
FetchOK(t) ==
    /\ th[t].pc = "r_fetch"
    /\ \E tk \in {NewToken, EmptyToken} : \E expiresIn \in 0..MaxExpiresIn :
          /\ token' = tk
          /\ expiry' = now + expiresIn
          /\ issued' = IF tk = EmptyToken THEN issued ELSE issued \cup {tk}
          /\ th' = [th EXCEPT ![t] =
                        GetTokenReturn([@ EXCEPT !.fexp = now + expiresIn], tk, FALSE, "fetch")]
    /\ writer' = Unlock(writer, t)
    /\ UNCHANGED <<static, margin, readers, now, nFetch, cleared, ops, budget, codec, svc, fn, stream, gw>>

\* InvalidateToken: tm.mu.Lock()
InvLock(t) ==
    /\ th[t].pc = "i_lock"
    /\ CanLock
    /\ writer' = writer \cup {t}
    /\ th' = [th EXCEPT ![t].pc = "i_clear"]
    /\ UNCHANGED <<static, margin, token, expiry, readers, now, nFetch,
                   issued, cleared, ops, budget, codec, svc, fn, stream, gw>>

\* InvalidateToken: the token and its expiry are cleared, the lock released;
\* doRequest goes on to its second GetToken
InvClear(t) ==
    /\ th[t].pc = "i_clear"
    /\ token' = InvalidatedToken(token)
    /\ expiry' = InvalidatedExpiry(expiry)
    /\ writer' = Unlock(writer, t)
    /\ cleared' = cleared \cup ({token} \ {EmptyToken})
    /\ th' = [th EXCEPT ![t] = [th[t] EXCEPT
                !.pc = IF th[t].op = "inv" THEN "done" ELSE "g_rlock",
                !.nInv = th[t].nInv + 1,
                !.seenAtInv = issued,
                !.clrAtStart = cleared']]
    /\ UNCHANGED <<static, margin, readers, now, nFetch, issued, ops, budget, codec, svc, fn, stream, gw>>

\* Time passes.
Tick ==
    /\ now < MaxTime
    /\ now' = now + 1
    /\ UNCHANGED <<static, margin, token, expiry, readers, writer, nFetch,
                   issued, cleared, ops, budget, th, codec, svc, fn, stream, gw>>

-----------------------------------------------------------------------------
(* Client.doRequest *)

\* What http.Client.Do gives: a response with a status, or an error.
Outcomes == {[kind |-> "resp", status |-> s] : s \in Statuses}
            \cup {[kind |-> "error", status |-> 0]}

\* What httpClient.Do can return for the request as it now is: any outcome,
\* but only an error when req.Body yields less than the Content-Length that
\* http.NewRequestWithContext took from the bytes.Reader.
DoOutcomes(r) ==
    IF r.body # NilBody /\ r.unread # r.body
    THEN {o \in Outcomes : o.kind = "error"}
    ELSE Outcomes

\* (mutant) a retry after every 401
ShouldRetryEvery401(attempts, outcome) ==
    outcome.kind = "resp" /\ outcome.status = StatusUnauthorized

\* doRequest line 82: after this attempt, the token is invalidated and the
\* request is sent again.
ShouldRetry(attempts, outcome) ==
    attempts = 1 /\ outcome.kind = "resp" /\ outcome.status = StatusUnauthorized

\* (mutant) a retry that does not invalidate the token
RetryEntryNoInvalidate == "g_rlock"

\* doRequest line 87: the retry begins with InvalidateToken.
RetryEntry == "i_lock"

\* The token of the Authorization header of the attempt that follows `att`.
HeaderToken(r) == r.tok

\* doRequest: httpClient.Do(req), for the first attempt or the retry, and
\* what doRequest and its wrapper do with the outcome
Send(t) ==
    /\ th[t].pc = "send"
    /\ \E o \in DoOutcomes(th[t]) :
        LET r0 == th[t]
            a == Append(r0.att, [tok |-> HeaderToken(r0), kind |-> o.kind,
                                 status |-> o.status, body |-> r0.unread])
            r == [r0 EXCEPT !.unread = AfterDo(r0.unread)]
        IN th' = [th EXCEPT ![t] =
                    IF ShouldRetry(Len(a), o)
                    THEN [r EXCEPT !.att = a, !.pc = RetryEntry]
                    ELSE [r EXCEPT !.att = a, !.pc = "done",
                                   !.res = IF o.kind = "error" THEN TransportError
                                           ELSE WrapperResult(r.call, o.status)]]
    /\ UNCHANGED <<static, margin, token, expiry, readers, writer, now, nFetch,
                   issued, cleared, ops, budget, codec, svc, fn, stream, gw>>

-----------------------------------------------------------------------------
(* The run identifier codec: ConcourseRunRef.ID and ParseRunRef *)

\* All strings over `chars` of at most n characters.
Strs(chars, n) == UNION {[1..k -> chars] : k \in 0..n}

DigitChars == <<"0", "1", "2", "3", "4", "5", "6", "7", "8", "9">>

IsDigit(c) == \E d \in 1..Len(DigitChars) : DigitChars[d] = c

DigitVal(c) == (CHOOSE d \in 1..Len(DigitChars) : DigitChars[d] = c) - 1

\* fmt's %d of n >= 0
RECURSIVE FormatNat(_)
FormatNat(n) ==
    IF n < 10 THEN <<DigitChars[n + 1]>>
    ELSE Append(FormatNat(n \div 10), DigitChars[(n % 10) + 1])

\* fmt's %d
FormatInt(n) == IF n < 0 THEN <<"-">> \o FormatNat(-n) ELSE FormatNat(n)

\* (mutant) the delimiter of the comment of Service.parseRunRef
DelimiterSlash == "/"

\* the delimiter of the format string of ID
Delimiter == ":"

\* ConcourseRunRef.ID
ID(ref) ==
    ref.Team \o <<Delimiter>> \o ref.Pipeline \o <<Delimiter>> \o ref.Job
        \o <<Delimiter>> \o FormatInt(ref.BuildID)

\* strings.Split(s, ":")
Split(s) ==
    LET parts[i \in 0..Len(s)] ==
            IF i = 0 THEN << <<>> >>
            ELSE IF s[i] = ":" THEN Append(parts[i - 1], <<>>)
            ELSE [parts[i - 1] EXCEPT ![Len(parts[i - 1])] = Append(@, s[i])]
    IN parts[Len(s)]

\* strconv.Atoi: an optional sign, then one decimal digit or more
Atoi(s) ==
    LET signed == Len(s) > 0 /\ s[1] \in {"+", "-"}
        digits == IF signed THEN Tail(s) ELSE s
        value[i \in 0..Len(digits)] ==
            IF i = 0 THEN 0 ELSE value[i - 1] * 10 + DigitVal(digits[i])
    IN IF Len(digits) < 1 \/ \E i \in 1..Len(digits) : ~IsDigit(digits[i])
       THEN [ok |-> FALSE, val |-> 0]
       ELSE [ok |-> TRUE,
             val |-> IF signed /\ s[1] = "-" THEN -value[Len(digits)]
                     ELSE value[Len(digits)]]

NoRef == [Team |-> <<>>, Pipeline |-> <<>>, Job |-> <<>>, BuildID |-> 0, BuildName |-> <<>>]

\* ParseRunRef
ParseRunRef(runID) ==
    LET parts == Split(runID) IN
    IF Len(parts) # 4 THEN [ok |-> FALSE, ref |-> NoRef]
    ELSE IF ~Atoi(parts[4]).ok THEN [ok |-> FALSE, ref |-> NoRef]
    ELSE [ok |-> TRUE,
          ref |-> [Team |-> parts[1], Pipeline |-> parts[2], Job |-> parts[3],
                   BuildID |-> Atoi(parts[4]).val, BuildName |-> <<>>]]

\* The inputs of the codec.
NameChars == {"a", ":"}
NumChars == {"0", "1", "-", "+", "a"}
RawChars == {"a", ":", "1"}

Names == Strs(NameChars, MaxNameLen)

\* The references Adapter.Trigger may build: any names, any build id and name.
Refs ==
    [Team : Names, Pipeline : Names, Job : Names,
     BuildID : (-1)..MaxBuildID, BuildName : {<<>>, <<"1">>}]

\* The strings a client may send for a run id: any short string, and four
\* segments of which the last is any short text.
RunIDs ==
    Strs(RawChars, MaxStrLen)
    \cup {t \o <<":">> \o p \o <<":">> \o j \o <<":">> \o n :
            t \in Strs({"a"}, MaxNameLen), p \in Strs({"a"}, MaxNameLen),
            j \in Strs({"a"}, MaxNameLen), n \in Strs(NumChars, MaxNumLen)}

CodecIdle ==
    [pc |-> "idle", src |-> "none", ref0 |-> NoRef, str |-> <<>>,
     res |-> [ok |-> FALSE, ref |-> NoRef], out |-> <<>>]

\* A run reference to encode, or a run id to parse.
CodecInit ==
    \/ \E r \in Refs : codec = [CodecIdle EXCEPT !.pc = "ref", !.src = "ref", !.ref0 = r]
    \/ \E s \in RunIDs : codec = [CodecIdle EXCEPT !.pc = "str", !.src = "str", !.str = s]

\* mapBuildToRun: RunID: runRef.ID()
CodecEncode ==
    /\ codec.pc = "ref"
    /\ codec' = [codec EXCEPT !.pc = "str", !.str = ID(codec.ref0)]
    /\ UNCHANGED <<tmVars, svc, fn, stream, gw>>

\* Service.parseRunRef
CodecParse ==
    /\ codec.pc = "str"
    /\ codec' = [codec EXCEPT !.pc = "parsed", !.res = ParseRunRef(codec.str)]
    /\ UNCHANGED <<tmVars, svc, fn, stream, gw>>

\* Adapter.GetRun on the parsed reference: mapBuildToRun: RunID: runRef.ID()
CodecReencode ==
    /\ codec.pc = "parsed"
    /\ codec.res.ok
    /\ codec' = [codec EXCEPT !.pc = "encoded", !.out = ID(codec.res.ref)]
    /\ UNCHANGED <<tmVars, svc, fn, stream, gw>>

-----------------------------------------------------------------------------
(* The mapper: mapStatus and mapBuildToRun *)

\* models.RunStatus
StatusQueued == "queued"
StatusRunning == "running"
StatusSucceeded == "succeeded"
StatusFailed == "failed"
StatusCanceled == "canceled"
StatusErrored == "errored"
StatusUnknown == "unknown"

\* (mutant) the backend's status passed through
mapStatusPassThrough(concourseStatus) == concourseStatus

\* mapStatus
mapStatus(concourseStatus) ==
    CASE concourseStatus = "pending" -> StatusQueued
      [] concourseStatus = "started" -> StatusRunning
      [] concourseStatus = "succeeded" -> StatusSucceeded
      [] concourseStatus = "failed" -> StatusFailed
      [] concourseStatus = "aborted" -> StatusCanceled
      [] concourseStatus = "errored" -> StatusErrored
      [] OTHER -> StatusUnknown

\* A time.Time of the Run as the response reports it: an instant, given in
\* seconds since the epoch, or a nil pointer, which the response omits.
TimeUnix(sec) == [set |-> TRUE, unix |-> sec]
NilTime == [set |-> FALSE, unix |-> 0]

\* mapBuildToRun, lines 22-30: a pointer field is set for a time above zero
OptionalTime(sec) == IF sec > 0 THEN TimeUnix(sec) ELSE NilTime

\* mapBuildToRun
mapBuildToRun(build, runRef) ==
    [RunID |-> ID(runRef),
     JobID |-> "",
     Status |-> mapStatus(build.Status),
     CreatedAt |-> TimeUnix(build.CreateTime),
     StartedAt |-> OptionalTime(build.StartTime),
     FinishedAt |-> OptionalTime(build.EndTime)]

\* Build, as decoded from the backend's response
Build(id, status, createTime, startTime, endTime) ==
    [ID |-> id, Name |-> <<"1">>, Status |-> status,
     CreateTime |-> createTime, StartTime |-> startTime, EndTime |-> endTime]

NoBuild == Build(0, "", 0, 0, 0)

NoRun ==
    [RunID |-> <<>>, JobID |-> "", Status |-> "",
     CreatedAt |-> NilTime, StartedAt |-> NilTime, FinishedAt |-> NilTime]

-----------------------------------------------------------------------------
(* The HTTP layer: the handlers' answer to an error of the service *)

\* GetRequestID
RequestID == "req-1"

\* respondError: the status and the JSON body {"error": {...}}
respondError(status, message) ==
    [status |-> status, type |-> "application/json",
     error |-> [message |-> message, code |-> status, request_id |-> RequestID]]

\* Handlers.StreamEvents lines 143-157: the stream is open, with the status
\* the first write implies, when the service fails; the error is an event
streamError ==
    [status |-> StatusOK, type |-> "text/event-stream",
     error |-> [message |-> "stream error", request_id |-> RequestID]]

Endpoints == {"TriggerRun", "GetRun", "StreamEvents", "CancelRun"}

\* What a handler answers when its service call returns err.
HandlerError(endpoint, err) ==
    IF endpoint = "StreamEvents" THEN streamError
    ELSE respondError(handleServiceError(err).status, handleServiceError(err).message)

-----------------------------------------------------------------------------
(* The service layer: Service over the Adapter and the Client *)

\* A value of the map job.Provider.Ref: a string, a value of another type,
\* or the nil of a key the map lacks.
StringValue(str) == [type |-> "string", s |-> str]
NumberValue == [type |-> "number", s |-> <<>>]
NilValue == [type |-> "nil", s |-> <<>>]

\* (mutant) a type assertion that accepts every value
IsStringAny(v) == TRUE

\* buildJobRef: the ok of job.Provider.Ref[key].(string)
IsString(v) == v.type = "string"

Job(kind, team, pipeline, job) ==
    [Kind |-> kind, Ref |-> [team |-> team, pipeline |-> pipeline, job |-> job]]

\* NewService: the static registry, here with two jobs that are complete and
\* one for each way a provider_ref can be wrong.
Jobs ==
    ("job_a" :> Job("concourse", StringValue(<<"a">>), StringValue(<<"p">>), StringValue(<<"j">>)))
    @@ ("job_b" :> Job("concourse", StringValue(<<"a">>), StringValue(<<"p">>), StringValue(<<"k">>)))
    @@ ("job_noteam" :> Job("concourse", NilValue, StringValue(<<"p">>), StringValue(<<"j">>)))
    @@ ("job_numpipeline" :> Job("concourse", StringValue(<<"a">>), NumberValue, StringValue(<<"j">>)))
    @@ ("job_nojob" :> Job("concourse", StringValue(<<"a">>), StringValue(<<"p">>), NilValue))
    @@ ("job_github" :> Job("github", StringValue(<<"a">>), StringValue(<<"p">>), StringValue(<<"j">>)))

\* The job ids a client may ask for.
JobIDs == DOMAIN Jobs \cup {"job_missing"}

\* The idempotency keys a client may send ("": none).
IdempotencyKeys == {"", "key-1"}

NoJobRef == [Team |-> <<>>, Pipeline |-> <<>>, Job |-> <<>>]

\* Service.buildJobRef
buildJobRef(job) ==
    IF job.Kind # "concourse" THEN [ok |-> FALSE, ref |-> NoJobRef]
    ELSE IF ~IsString(job.Ref.team) THEN [ok |-> FALSE, ref |-> NoJobRef]
    ELSE IF ~IsString(job.Ref.pipeline) THEN [ok |-> FALSE, ref |-> NoJobRef]
    ELSE IF ~IsString(job.Ref.job) THEN [ok |-> FALSE, ref |-> NoJobRef]
    ELSE [ok |-> TRUE,
          ref |-> [Team |-> job.Ref.team.s, Pipeline |-> job.Ref.pipeline.s,
                   Job |-> job.Ref.job.s]]

\* (mutant) Trigger that skips the backend for an idempotency key it has seen
CreatesBuildOncePerKey(key, seen) == key = "" \/ key \notin seen

\* Adapter.Trigger: CreateBuild is called whatever params.IdempotencyKey is
CreatesBuild(key, seen) == TRUE

\* (mutant) a run reference without the build's id
TriggerRunRefNoBuild(ref, build) ==
    [Team |-> ref.Team, Pipeline |-> ref.Pipeline, Job |-> ref.Job,
     BuildID |-> 0, BuildName |-> build.Name]

\* Adapter.Trigger, lines 146-152: the reference of the build created
TriggerRunRef(ref, build) ==
    [Team |-> ref.Team, Pipeline |-> ref.Pipeline, Job |-> ref.Job,
     BuildID |-> build.ID, BuildName |-> build.Name]

\* (mutant) a service that hands every run id to the provider
RunRefRejectedNever(parsed) == FALSE

\* Service.GetRun / StreamRunEvents / CancelRun: err != nil of parseRunRef
RunRefRejected(parsed) == ~parsed.ok

\* Service.GetRun, lines 139-144: the error it returns for the provider's
GetRunError(err) == IF err = ErrRunNotFound THEN ServiceErrRunNotFound ELSE err

\* The errors a client call returns in this model: for a 404, for a 500, and
\* the errors of the transport.
ClientFailures(call) ==
    {WrapperResult(call, StatusNotFound), WrapperResult(call, StatusInternalServerError),
     TransportError}

\* The status strings of the builds of the modelled backend.
BackendStatuses == {"started", "bogus"}

\* The run ids a client may send to the service: two that name builds, and
\* one for each way a run id can be wrong or unusual.
SvcRunIDs ==
    {<<"a", ":", "p", ":", "j", ":", "1">>,
     <<"a", ":", "p", ":", "j", ":", "2">>,
     <<"a", ":", "p", ":", "1">>,
     <<"a", ":", "p", ":", "j", ":", "1", ":", "1">>,
     <<"a", ":", "p", ":", "j", ":", "x">>,
     <<"a", ":", "p", ":", "j", ":">>,
     <<":", ":", ":", "1">>,
     <<"a", ":", "p", ":", "j", ":", "-", "1">>,
     <<>>}

SvcRequests == 1..MaxSvcRequests

\* A call of the Client, as the backend's side records it.
ClientCall(call, path, id, returned, status) ==
    [call |-> call, path |-> path, id |-> id, returned |-> returned, status |-> status]

ReqIdle ==
    [pc |-> "idle", op |-> "none", jobID |-> "", key |-> "", runID |-> <<>>,
     reached |-> FALSE,     \* Service.TriggerRun called provider.Trigger
     calls |-> <<>>,        \* the calls of the Client it made, in order
     ref |-> NoRef,         \* the run reference it works on
     res |-> NoError,       \* the error it returned
     run |-> NoRun,         \* the Run it returned
     written |-> 0]         \* the events it wrote to the sink

SvcIdle ==
    [req |-> [i \in SvcRequests |-> ReqIdle],
     builds |-> 0,          \* the builds the backend has created
     keys |-> {}]           \* the idempotency keys that reached the provider

\* The requests are numbered in the order of their arrival.
Arrives(i) ==
    /\ svc.req[i].pc = "idle"
    /\ \A k \in SvcRequests : k < i => svc.req[k].pc # "idle"

SvcDone(i, r) == svc' = [svc EXCEPT !.req[i] = [r EXCEPT !.pc = "done"]]

\* Service.TriggerRun up to the return of provider.Trigger
SvcTriggerRun(i) ==
    /\ Arrives(i)
    /\ \E jobID \in JobIDs : \E key \in IdempotencyKeys :
        LET r == [ReqIdle EXCEPT !.op = "TriggerRun", !.jobID = jobID, !.key = key] IN
        IF jobID \notin DOMAIN Jobs
        THEN SvcDone(i, [r EXCEPT !.res = ServiceErrJobNotFound])
        ELSE IF ~buildJobRef(Jobs[jobID]).ok
        THEN SvcDone(i, [r EXCEPT !.res = BuildJobRefError])
        ELSE
          LET jobRef == buildJobRef(Jobs[jobID]).ref
              path == <<jobRef.Team, jobRef.Pipeline, jobRef.Job>>
              id == svc.builds + 1
              r1 == [r EXCEPT !.reached = TRUE]
          IN
          IF ~CreatesBuild(key, svc.keys)
          THEN SvcDone(i, r1)
          ELSE
            \/ \E e \in ClientFailures("CreateBuild") \cup {DecodeError} :
                 svc' = [svc EXCEPT
                    !.keys = @ \cup {key},
                    !.req[i] = [r1 EXCEPT !.pc = "done", !.res = e,
                        !.calls = <<ClientCall("CreateBuild", path, 0, -1, "")>>]]
            \/ svc' = [svc EXCEPT
                    !.keys = @ \cup {key},
                    !.builds = id,
                    !.req[i] = [r1 EXCEPT !.pc = "initial_status",
                        !.calls = <<ClientCall("CreateBuild", path, 0, id, "")>>,
                        !.ref = TriggerRunRef(jobRef, Build(id, "pending", 1, 0, 0))]]
    /\ UNCHANGED <<tmVars, codec, fn, stream, gw>>

\* Service.TriggerRun from provider.GetRun to its return
SvcInitialStatus(i) ==
    /\ svc.req[i].pc = "initial_status"
    /\ LET r == svc.req[i] IN
        \/ \E e \in ClientFailures("GetBuild") \cup {DecodeError} :
             SvcDone(i, [r EXCEPT !.res = e,
                 !.calls = Append(@, ClientCall("GetBuild", <<>>, r.ref.BuildID, -1, ""))])
        \/ \E st \in BackendStatuses :
             SvcDone(i, [r EXCEPT
                 !.calls = Append(@, ClientCall("GetBuild", <<>>, r.ref.BuildID, -1, st)),
                 !.run = [mapBuildToRun(Build(r.ref.BuildID, st, 1, 1, 0), r.ref)
                             EXCEPT !.JobID = r.jobID]])
    /\ UNCHANGED <<tmVars, codec, fn, stream, gw>>

\* Service.GetRun
SvcGetRun(i) ==
    /\ Arrives(i)
    /\ \E runID \in SvcRunIDs :
        LET r == [ReqIdle EXCEPT !.op = "GetRun", !.runID = runID]
            parsed == ParseRunRef(runID)
            r1 == [r EXCEPT !.ref = parsed.ref]
        IN
        IF RunRefRejected(parsed)
        THEN SvcDone(i, [r EXCEPT !.res = ServiceErrRunNotFound])
        ELSE
          \/ \E e \in ClientFailures("GetBuild") \cup {DecodeError} :
               SvcDone(i, [r1 EXCEPT !.res = GetRunError(e),
                   !.calls = <<ClientCall("GetBuild", <<>>, parsed.ref.BuildID, -1, "")>>])
          \/ \E st \in BackendStatuses :
               SvcDone(i, [r1 EXCEPT
                   !.calls = <<ClientCall("GetBuild", <<>>, parsed.ref.BuildID, -1, st)>>,
                   !.run = mapBuildToRun(Build(parsed.ref.BuildID, st, 1, 1, 0), parsed.ref)])
    /\ UNCHANGED <<tmVars, codec, fn, stream, gw>>

\* Service.StreamRunEvents
SvcStreamRunEvents(i) ==
    /\ Arrives(i)
    /\ \E runID \in SvcRunIDs :
        LET r == [ReqIdle EXCEPT !.op = "StreamRunEvents", !.runID = runID]
            parsed == ParseRunRef(runID)
            r1 == [r EXCEPT !.ref = parsed.ref,
                     !.calls = <<ClientCall("StreamBuildEvents", <<>>, parsed.ref.BuildID, -1, "")>>]
        IN
        IF RunRefRejected(parsed)
        THEN SvcDone(i, [r EXCEPT !.res = ServiceErrRunNotFound])
        ELSE
          \/ \E e \in ClientFailures("StreamBuildEvents") :
               SvcDone(i, [r1 EXCEPT !.res = e])
          \/ \E n \in 0..MaxEvents : \E e \in {NoError, TransportError} :
               SvcDone(i, [r1 EXCEPT !.written = n, !.res = e])
    /\ UNCHANGED <<tmVars, codec, fn, stream, gw>>

\* Service.CancelRun
SvcCancelRun(i) ==
    /\ Arrives(i)
    /\ \E runID \in SvcRunIDs :
        LET r == [ReqIdle EXCEPT !.op = "CancelRun", !.runID = runID]
            parsed == ParseRunRef(runID)
            r1 == [r EXCEPT !.ref = parsed.ref,
                     !.calls = <<ClientCall("AbortBuild", <<>>, parsed.ref.BuildID, -1, "")>>]
        IN
        IF RunRefRejected(parsed)
        THEN SvcDone(i, [r EXCEPT !.res = ServiceErrRunNotFound])
        ELSE \E e \in ClientFailures("AbortBuild") \cup {NoError} :
               SvcDone(i, [r1 EXCEPT !.res = e])
    /\ UNCHANGED <<tmVars, codec, fn, stream, gw>>

-----------------------------------------------------------------------------
(* The mapping functions, each applied to one input *)

\* The status strings a build may carry: those of the backend, and others.
BuildStatuses ==
    {"pending", "started", "succeeded", "failed", "aborted", "errored",
     "", "Pending", "queued", "running", "canceled", "unknown"}

\* The times a build may carry, in seconds since the epoch (0: none).
BuildTimes == (-1)..MaxUnixTime

\* The status codes of a response.
ResponseCodes == 100..599

ClientCalls == {"CreateBuild", "GetBuild", "AbortBuild", "StreamBuildEvents"}

\* The errors a service call may return to its handler.
ServiceErrors ==
    {ServiceErrJobNotFound, ServiceErrRunNotFound, ProviderErrJobNotFound,
     ErrRunNotFound, ErrUnauthorized, ErrProviderUnavailable,
     TransportError, GetTokenError, RefreshTokenError, BuildJobRefError, DecodeError}
    \cup {ProviderError(c) : c \in ResponseCodes \cup {0}}

(* Adapter.GetBuildDetails and Adapter.Cancel *)

\* the outcomes of Client.GetBuildPlan: a plan, or one of a client call's errors
PlanOutcomes == {NoError} \cup ClientFailures("GetBuildPlan")

\* (mutant) a plan failure that fails the whole call
PlanFailurePropagates(planErr) == planErr

\* What GetBuildDetails returns as its error once GetBuild has succeeded:
\* a GetBuildPlan failure is logged and dropped.
PlanFailure(planErr) == NoError

\* GetBuildDetails on the outcomes of its two client calls.  GetBuildPlan is
\* called only after GetBuild has succeeded.
GetBuildDetails(buildErr, planErr) ==
    IF buildErr # NoError
    THEN [build |-> FALSE, plan |-> FALSE, err |-> buildErr, calls |-> <<"GetBuild">>]
    ELSE [build |-> TRUE, plan |-> planErr = NoError, err |-> PlanFailure(planErr),
          calls |-> <<"GetBuild", "GetBuildPlan">>]

NoDetails == [build |-> FALSE, plan |-> FALSE, err |-> NoError, calls |-> <<>>]

\* (mutant) an abort that only 200 completes
AbortSuccessOKOnly == {StatusOK}

\* the statuses AbortBuild takes for success
AbortSuccess == SuccessStatuses("AbortBuild")

\* Adapter.Cancel on the final response of the abort call: AbortBuild's error
\* is returned as it is.
Cancel(status) == IF status \in AbortSuccess THEN NoError ELSE parseError(status)

(* AuthMiddleware.Authenticate behind NewRouter *)

Bearer == <<"B", "e", "a", "r", "e", "r">>

Key1 == <<"k", "1">>
Key2 == <<"k", "2">>

\* the Authorization header values of a request (the empty one: no header)
AuthHeaders ==
    {<<>>, Bearer, Bearer \o <<" ">>, Bearer \o <<" ">> \o Key1,
     Bearer \o <<" ">> \o Key2, Bearer \o <<" ", " ">> \o Key1,
     Bearer \o <<" ">> \o Key1 \o <<" ">>, <<"b">> \o Tail(Bearer) \o <<" ">> \o Key1,
     <<"B", "a", "s", "i", "c", " ">> \o Key1, Key1, <<" ">> \o Key1,
     Bearer \o Key1, Bearer \o <<" ">> \o Key1 \o <<" ">> \o Key2}

\* the configured API-key sets
KeySets == SUBSET {Key1, Key2}

\* the routes NewRouter registers
Routes ==
    {"/health", "/v1/jobs", "/v1/jobs/{job_id}/runs", "/v1/runs/{run_id}",
     "/v1/runs/{run_id}/events", "/v1/runs/{run_id}/cancel", "/v1/builds/{build_id}",
     "/v1/discovery/pipelines"}

\* the routes registered inside r.Route("/v1", ...), behind r.Use(Authenticate)
Authenticated(route) == route # "/health"

\* strings.SplitN(h, " ", 2)
SplitN2(h) ==
    LET spaces == {i \in 1..Len(h) : h[i] = " "}
    IN IF spaces = {} THEN <<h>>
       ELSE LET i == CHOOSE j \in spaces : \A k \in spaces : j <= k
            IN <<SubSeq(h, 1, i - 1), SubSeq(h, i + 1, Len(h))>>

\* (mutant) a key lookup that accepts every key
ValidKeyAny(keys, k) == TRUE

\* m.apiKeys[apiKey]
ValidKey(keys, k) == k \in keys

\* Authenticate: the status it answers with, or next.ServeHTTP
Authenticate(keys, header) ==
    IF header = <<>> THEN [status |-> StatusUnauthorized, next |-> FALSE]
    ELSE LET parts == SplitN2(header)
         IN IF Len(parts) # 2 \/ parts[1] # Bearer
            THEN [status |-> StatusUnauthorized, next |-> FALSE]
            ELSE IF ~ValidKey(keys, parts[2])
            THEN [status |-> StatusUnauthorized, next |-> FALSE]
            ELSE [status |-> StatusOK, next |-> TRUE]

\* the router on a request for one of its routes: whether the route's handler
\* runs, and the status answered when it does not
Serve(keys, route, header) ==
    IF Authenticated(route) THEN Authenticate(keys, header)
    ELSE [status |-> StatusOK, next |-> TRUE]

(* FilterPipelines and FilterJobs *)

\* (mutant) a lowering that keeps the case
ToLowerKeep(str) == str

\* strings.ToLower, on the letters used here
ToLower(str) ==
    [i \in 1..Len(str) |->
        CASE str[i] = "A" -> "a" [] str[i] = "B" -> "b" [] OTHER -> str[i]]

\* strings.Contains
Contains(str, sub) ==
    \E i \in 1..(Len(str) + 1) :
        /\ i + Len(sub) - 1 <= Len(str)
        /\ SubSeq(str, i, i + Len(sub) - 1) = sub

\* a *bool query parameter: nil, or a pointer to a value
NilBool == {}
BoolPtr(b) == {b}
BoolParams == {NilBool, BoolPtr(TRUE), BoolPtr(FALSE)}

ItemNames == {<<"a", "B">>, <<"b">>, <<"A">>}
Searches == {<<>>, <<"a">>, <<"B">>, <<"a", "b">>}

Pipelines == [Name : ItemNames, Paused : BOOLEAN, Archived : BOOLEAN]

\* a job, with the Archived field that FilterJobs never reads left unset
FilterableJobs == [Name : ItemNames, Paused : BOOLEAN, Archived : {FALSE}]

Lists(items) == UNION {[1..k -> items] : k \in 0..MaxItems}

\* the loop of FilterPipelines; FilterJobs is the same loop without the
\* archived filter
FilterLoop(items, search, paused, archived) ==
    LET searchLower == ToLower(search)
        filtered[i \in 0..Len(items)] ==
            IF i = 0 THEN <<>>
            ELSE LET it == items[i]
                 IN IF search # <<>> /\ ~Contains(ToLower(it.Name), searchLower)
                    THEN filtered[i - 1]
                    ELSE IF paused # NilBool /\ BoolPtr(it.Paused) # paused
                    THEN filtered[i - 1]
                    ELSE IF archived # NilBool /\ BoolPtr(it.Archived) # archived
                    THEN filtered[i - 1]
                    ELSE Append(filtered[i - 1], it)
    IN filtered[Len(items)]

FilterPipelines(pipelines, search, paused, archived) ==
    IF search = <<>> /\ paused = NilBool /\ archived = NilBool THEN pipelines
    ELSE FilterLoop(pipelines, search, paused, archived)

FilterJobs(jobs, search, paused) ==
    IF search = <<>> /\ paused = NilBool THEN jobs
    ELSE FilterLoop(jobs, search, paused, NilBool)


FnRef == [Team |-> <<"a">>, Pipeline |-> <<"a">>, Job |-> <<"a">>,
          BuildID |-> 1, BuildName |-> <<"1">>]

FnIdle ==
    [pc |-> "idle", f |-> "none", status |-> "", build |-> NoBuild,
     call |-> "none", code |-> 0, endpoint |-> "none", err |-> NoError,
     runStatus |-> "", run |-> NoRun, res |-> NoError, resp |-> streamError,
     buildErr |-> NoError, planErr |-> NoError, details |-> NoDetails,
     keys |-> {}, route |-> "none", header |-> <<>>,
     served |-> [status |-> 0, next |-> FALSE],
     items |-> <<>>, search |-> <<>>, paused |-> NilBool, archived |-> NilBool,
     filtered |-> <<>>]

FnInit ==
    \/ \E st \in BuildStatuses :
          fn = [FnIdle EXCEPT !.pc = "in", !.f = "mapStatus", !.status = st]
    \/ \E st \in {"started", ""} : \E c, b, e \in BuildTimes :
          fn = [FnIdle EXCEPT !.pc = "in", !.f = "mapBuildToRun",
                              !.build = Build(1, st, c, b, e)]
    \/ \E call \in ClientCalls : \E code \in ResponseCodes :
          fn = [FnIdle EXCEPT !.pc = "in", !.f = "wrapper", !.call = call, !.code = code]
    \/ \E ep \in Endpoints : \E e \in ServiceErrors :
          fn = [FnIdle EXCEPT !.pc = "in", !.f = "handler", !.endpoint = ep, !.err = e]
    \/ \E be \in {NoError} \cup ClientFailures("GetBuild") : \E pe \in PlanOutcomes :
          fn = [FnIdle EXCEPT !.pc = "in", !.f = "GetBuildDetails",
                              !.buildErr = be, !.planErr = pe]
    \/ \E code \in ResponseCodes :
          fn = [FnIdle EXCEPT !.pc = "in", !.f = "Cancel", !.code = code]
    \/ \E ks \in KeySets : \E rt \in Routes : \E h \in AuthHeaders :
          fn = [FnIdle EXCEPT !.pc = "in", !.f = "Serve",
                              !.keys = ks, !.route = rt, !.header = h]
    \/ \E l \in Lists(Pipelines) : \E q \in Searches : \E pa, ar \in BoolParams :
          fn = [FnIdle EXCEPT !.pc = "in", !.f = "FilterPipelines", !.items = l,
                              !.search = q, !.paused = pa, !.archived = ar]
    \/ \E l \in Lists(FilterableJobs) : \E q \in Searches : \E pa \in BoolParams :
          fn = [FnIdle EXCEPT !.pc = "in", !.f = "FilterJobs", !.items = l,
                              !.search = q, !.paused = pa]

FnMapStatus ==
    /\ fn.pc = "in" /\ fn.f = "mapStatus"
    /\ fn' = [fn EXCEPT !.pc = "out", !.runStatus = mapStatus(fn.status)]
    /\ UNCHANGED <<tmVars, codec, svc, stream, gw>>

FnMapBuildToRun ==
    /\ fn.pc = "in" /\ fn.f = "mapBuildToRun"
    /\ fn' = [fn EXCEPT !.pc = "out", !.run = mapBuildToRun(fn.build, FnRef)]
    /\ UNCHANGED <<tmVars, codec, svc, stream, gw>>

\* a client call on the response doRequest hands it
FnWrapper ==
    /\ fn.pc = "in" /\ fn.f = "wrapper"
    /\ fn' = [fn EXCEPT !.pc = "out", !.res = WrapperResult(fn.call, fn.code)]
    /\ UNCHANGED <<tmVars, codec, svc, stream, gw>>

\* a handler on the error its service call returned
FnHandler ==
    /\ fn.pc = "in" /\ fn.f = "handler"
    /\ fn' = [fn EXCEPT !.pc = "out", !.resp = HandlerError(fn.endpoint, fn.err)]
    /\ UNCHANGED <<tmVars, codec, svc, stream, gw>>

-----------------------------------------------------------------------------
(* Client.StreamBuildEvents: the copy loop from the response body to the sink *)

ContextCanceled == [kind |-> "context.Canceled", code |-> 0]
ErrTooLong == [kind |-> "bufio.ErrTooLong", code |-> 0]
ReadError == [kind |-> "read", code |-> 0]
WriteError == [kind |-> "write", code |-> 0]

\* The lines of a response body (without their line ends) and the bodies.
LineChars == {"x", "y"}
BodyLines == Strs(LineChars, MaxLineLen)
Bodies == UNION {[1..k -> BodyLines] : k \in 0..MaxLines}

\* parseConcourseEvent: the event of a line, and its error (always nil)
parseConcourseEvent(line) ==
    IF line = <<>> THEN [event |-> <<>>, err |-> NoError]
    ELSE [event |-> <<"d", "a", "t", "a", ":", " ">> \o line \o <<"\n", "\n">>,
          err |-> NoError]

\* bufio.Scanner with its default buffer: a line that does not fit with its
\* line end in MaxScanTokenSize bytes stops the scan with ErrTooLong.
TooLong(line) == Len(line) >= MaxScanTokenSize

\* the sink's record of the calls made on it
WriteCall(event) == [op |-> "Write", data |-> event]
FlushCall == [op |-> "Flush", data |-> <<>>]

\* (mutant) a loop that never looks at ctx.Done()
CtxObservedNever(done) == FALSE

\* select { case <-ctx.Done(): ...; default: }
CtxObserved(done) == done

StreamIdle ==
    [pc |-> "idle",
     body |-> <<>>,         \* the lines the backend sends
     pos |-> 0,             \* the lines the scanner has returned
     line |-> <<>>,         \* scanner.Text()
     sink |-> <<>>,         \* the calls made on the writer, in order
     flusher |-> FALSE,     \* the writer is an http.Flusher
     ctxDone |-> FALSE,     \* the caller's context is canceled
     opened |-> FALSE,      \* doRequest returned a 200 response
     afterCancel |-> 0,     \* frames written since the cancellation
     err |-> NoError]       \* what StreamBuildEvents returned

StreamInit ==
    \E b \in Bodies : \E fl \in BOOLEAN :
        stream = [StreamIdle EXCEPT !.pc = "open", !.body = b, !.flusher = fl]

StreamReturn(r, e) == stream' = [r EXCEPT !.pc = "done", !.err = e]

\* doRequest and the status check
StreamOpen ==
    /\ stream.pc = "open"
    /\ \E e \in {NoError} \cup ClientFailures("StreamBuildEvents") :
          IF e = NoError
          THEN stream' = [stream EXCEPT !.pc = "scan", !.opened = TRUE]
          ELSE StreamReturn(stream, e)
    /\ UNCHANGED <<tmVars, codec, svc, fn, gw>>

\* scanner.Scan(): the next line, the end of the body, a line too long for
\* the buffer, or a failed read of the body
StreamScan ==
    /\ stream.pc = "scan"
    /\ \/ /\ stream.pos = Len(stream.body)
          /\ StreamReturn(stream, NoError)
       \/ /\ stream.pos < Len(stream.body)
          /\ IF TooLong(stream.body[stream.pos + 1])
             THEN StreamReturn(stream, ErrTooLong)
             ELSE stream' = [stream EXCEPT !.pc = "select", !.pos = @ + 1,
                                           !.line = stream.body[stream.pos + 1]]
       \/ StreamReturn(stream, ReadError)
    /\ UNCHANGED <<tmVars, codec, svc, fn, gw>>

\* the cancellation check at the head of the loop body
StreamSelect ==
    /\ stream.pc = "select"
    /\ IF CtxObserved(stream.ctxDone)
       THEN StreamReturn(stream, ContextCanceled)
       ELSE stream' = [stream EXCEPT !.pc = "process"]
    /\ UNCHANGED <<tmVars, codec, svc, fn, gw>>

\* the rest of the loop body: transform, write, flush
StreamProcess ==
    /\ stream.pc = "process"
    /\ LET parsed == parseConcourseEvent(stream.line)
       IN IF parsed.err # NoError \/ parsed.event = <<>>
          THEN stream' = [stream EXCEPT !.pc = "scan"]
          ELSE \/ stream' = [stream EXCEPT
                    !.pc = "scan",
                    !.sink = @ \o <<WriteCall(parsed.event)>>
                               \o (IF stream.flusher THEN <<FlushCall>> ELSE <<>>),
                    !.afterCancel = IF stream.ctxDone THEN @ + 1 ELSE @]
               \/ StreamReturn(stream, WriteError)
    /\ UNCHANGED <<tmVars, codec, svc, fn, gw>>

\* the caller cancels its context
StreamCancel ==
    /\ stream.pc \notin {"idle", "done"}
    /\ ~stream.ctxDone
    /\ stream' = [stream EXCEPT !.ctxDone = TRUE]
    /\ UNCHANGED <<tmVars, codec, svc, fn, gw>>

-----------------------------------------------------------------------------
(* Gateway.Start: the server goroutine, the result channel and the shutdown *)

ErrServerClosed == [kind |-> "http.ErrServerClosed", code |-> 0]
ListenError == [kind |-> "listen", code |-> 0]
AcceptError == [kind |-> "accept", code |-> 0]
ServerError == [kind |-> "server error", code |-> 0]
ShutdownError == [kind |-> "graceful shutdown failed", code |-> 0]

\* (mutant) a result channel without a buffer and without a receiver
BufferHasRoomNever(q) == FALSE

\* make(chan error, 1): a send completes at once while the buffer has room
BufferHasRoom(q) == Len(q) < ServerErrorsCap

Conns == 1..MaxConns

\* the connections on which the server is serving a request
Active(g) == {c \in Conns : g.conns[c] = "active"}

GwIdle ==
    [main |-> "idle",       \* Start: idle, select, shutdown, returned
     srv |-> "none",        \* the goroutine: none, spawned, serving, sending, exited
     val |-> NoError,       \* what ListenAndServe returned to the goroutine
     chan |-> <<>>,         \* serverErrors
     closed |-> FALSE,      \* Shutdown or Close has been called on the server
     ctxDone |-> FALSE,     \* the context of Start is canceled
     conns |-> [c \in Conns |-> "none"],   \* each connection: none, active, idle
     via |-> "none",        \* the branch of the select Start took
     shutdownErr |-> NoError,   \* what server.Shutdown returned
     res |-> NoError]       \* what Start returned

\* Start creates the channel and starts the goroutine.
GwStart ==
    /\ gw.main = "idle"
    /\ gw' = [gw EXCEPT !.main = "select", !.srv = "spawned"]
    /\ UNCHANGED <<tmVars, codec, svc, fn, stream>>

\* the goroutine calls ListenAndServe: the server is already shut down, the
\* listener cannot be opened, or the server serves
GwListen ==
    /\ gw.srv = "spawned"
    /\ IF gw.closed
       THEN gw' = [gw EXCEPT !.srv = "sending", !.val = ErrServerClosed]
       ELSE \/ gw' = [gw EXCEPT !.srv = "sending", !.val = ListenError]
            \/ gw' = [gw EXCEPT !.srv = "serving"]
    /\ UNCHANGED <<tmVars, codec, svc, fn, stream>>

\* the server accepts a connection and serves its first request
GwAccept ==
    /\ gw.srv = "serving" /\ ~gw.closed
    /\ \E c \in Conns :
          /\ gw.conns[c] = "none"
          /\ gw' = [gw EXCEPT !.conns[c] = "active"]
    /\ UNCHANGED <<tmVars, codec, svc, fn, stream>>

\* a handler returns: the connection is idle, or closed once the server is
\* shutting down
GwFinish ==
    /\ \E c \in Conns :
          /\ gw.conns[c] = "active"
          /\ gw' = [gw EXCEPT !.conns[c] = IF gw.closed THEN "none" ELSE "idle"]
    /\ UNCHANGED <<tmVars, codec, svc, fn, stream>>

\* an idle connection carries its next request, or is closed by its client
GwReuse ==
    /\ ~gw.closed
    /\ \E c \in Conns : \E to \in {"active", "none"} :
          /\ gw.conns[c] = "idle"
          /\ gw' = [gw EXCEPT !.conns[c] = to]
    /\ UNCHANGED <<tmVars, codec, svc, fn, stream>>

\* ListenAndServe returns because the server failed
GwServeFail ==
    /\ gw.srv = "serving" /\ ~gw.closed
    /\ gw' = [gw EXCEPT !.srv = "sending", !.val = AcceptError]
    /\ UNCHANGED <<tmVars, codec, svc, fn, stream>>

\* ListenAndServe returns because Shutdown or Close was called
GwServeClosed ==
    /\ gw.srv = "serving" /\ gw.closed
    /\ gw' = [gw EXCEPT !.srv = "sending", !.val = ErrServerClosed]
    /\ UNCHANGED <<tmVars, codec, svc, fn, stream>>

\* serverErrors <- ...: the send completes when the buffer has room
GwSend ==
    /\ gw.srv = "sending"
    /\ BufferHasRoom(gw.chan)
    /\ gw' = [gw EXCEPT !.srv = "exited", !.chan = Append(@, gw.val)]
    /\ UNCHANGED <<tmVars, codec, svc, fn, stream>>

\* select: case err := <-serverErrors
GwRecv ==
    /\ gw.main = "select" /\ gw.chan # <<>>
    /\ LET err == Head(gw.chan) IN
       gw' = [gw EXCEPT !.main = "returned", !.via = "server", !.chan = Tail(@),
                        !.res = IF err # NoError /\ err # ErrServerClosed
                                THEN ServerError ELSE NoError]
    /\ UNCHANGED <<tmVars, codec, svc, fn, stream>>

\* the caller cancels the context
GwCancel ==
    /\ ~gw.ctxDone /\ gw.main # "returned"
    /\ gw' = [gw EXCEPT !.ctxDone = TRUE]
    /\ UNCHANGED <<tmVars, codec, svc, fn, stream>>

\* select: case <-ctx.Done(); server.Shutdown begins and closes the listener
\* and the idle connections
GwCtxDone ==
    /\ gw.main = "select" /\ gw.ctxDone
    /\ gw' = [gw EXCEPT !.main = "shutdown", !.via = "ctx", !.closed = TRUE,
                     !.conns = [c \in Conns |-> IF gw.conns[c] = "idle" THEN "none"
                                                ELSE gw.conns[c]]]
    /\ UNCHANGED <<tmVars, codec, svc, fn, stream>>

\* server.Shutdown returns: nil once no connection is active, or an error
\* (the 30 s deadline with connections still active, a listener that fails
\* to close), after which Start closes the server
GwShutdown ==
    /\ gw.main = "shutdown"
    /\ \/ /\ Active(gw) = {}
          /\ gw' = [gw EXCEPT !.main = "returned"]
       \/ gw' = [gw EXCEPT !.main = "returned",
                           !.conns = [c \in Conns |-> "none"],
                           !.shutdownErr = ShutdownError, !.res = ShutdownError]
    /\ UNCHANGED <<tmVars, codec, svc, fn, stream>>

-----------------------------------------------------------------------------
(* Specifications *)

GetStep(t) ==
    \/ Begin(t)
    \/ RLock(t)
    \/ FastPath(t)
    \/ Lock(t)
    \/ DoubleCheck(t)
    \/ FetchFail(t)
    \/ FetchOK(t)

InvStep(t) ==
    \/ InvLock(t)
    \/ InvClear(t)

\* The gateway: every goroutine serves requests through the client.
Init == TMInit({"req"}, MaxRequests, FALSE) /\ codec = CodecIdle /\ svc = SvcIdle /\ fn = FnIdle /\ stream = StreamIdle /\ gw = GwIdle

Next == (\E t \in Threads : GetStep(t) \/ InvStep(t) \/ Send(t)) \/ Tick

Spec == Init /\ [][Next]_vars

\* The TokenManager alone: goroutines call GetToken and InvalidateToken.
TMApiInit == TMInit({"get", "inv"}, MaxOps, FALSE) /\ codec = CodecIdle /\ svc = SvcIdle /\ fn = FnIdle /\ stream = StreamIdle /\ gw = GwIdle

TMNext == (\E t \in Threads : GetStep(t) \/ InvStep(t)) \/ Tick

TMSpec == TMApiInit /\ [][TMNext]_vars

\* The race for a refresh: the cached token is expired or absent and every
\* goroutine calls GetToken once.
RaceInit == TMInit({"get"}, NThreads, TRUE) /\ ~static /\ codec = CodecIdle /\ svc = SvcIdle /\ fn = FnIdle /\ stream = StreamIdle /\ gw = GwIdle

RaceNext == (\E t \in Threads : GetStep(t)) \/ Tick

RaceSpec == RaceInit /\ [][RaceNext]_vars

\* The client creating a build: one CreateBuild call through doRequest, with
\* or without parameters, by any goroutine.
CreateInit == TMInit({"create"}, 1, FALSE) /\ codec = CodecIdle /\ svc = SvcIdle
              /\ fn = FnIdle /\ stream = StreamIdle /\ gw = GwIdle

CreateSpec == CreateInit /\ [][Next]_vars

\* The TokenManager with goroutines that are scheduled fairly: a goroutine
\* that can take its next step (a lock that is free, a check, a fetch that
\* returns) eventually takes it.  Calls are not obliged to begin.
Progress(t) ==
    \/ RLock(t) \/ FastPath(t) \/ Lock(t) \/ DoubleCheck(t)
    \/ FetchFail(t) \/ FetchOK(t) \/ InvLock(t) \/ InvClear(t)

TMLiveInit == TMInit({"get", "inv"}, NThreads, TRUE) /\ codec = CodecIdle /\ svc = SvcIdle
              /\ fn = FnIdle /\ stream = StreamIdle /\ gw = GwIdle

TMLiveSpec ==
    TMLiveInit /\ [][TMNext]_vars /\ \A t \in Threads : WF_vars(Progress(t))

\* The codec alone, on every input.
CodecSpecInit == TMInit({"req"}, 0, FALSE) /\ ~static /\ margin = 0 /\ CodecInit
                 /\ svc = SvcIdle /\ fn = FnIdle /\ stream = StreamIdle /\ gw = GwIdle

CodecNext == CodecEncode \/ CodecParse \/ CodecReencode

CodecSpec == CodecSpecInit /\ [][CodecNext]_vars

\* The mapping functions alone, on every input.
FnGetBuildDetails ==
    /\ fn.pc = "in" /\ fn.f = "GetBuildDetails"
    /\ fn' = [fn EXCEPT !.pc = "out", !.details = GetBuildDetails(fn.buildErr, fn.planErr)]
    /\ UNCHANGED <<tmVars, codec, svc, stream, gw>>

FnCancel ==
    /\ fn.pc = "in" /\ fn.f = "Cancel"
    /\ fn' = [fn EXCEPT !.pc = "out", !.res = Cancel(fn.code)]
    /\ UNCHANGED <<tmVars, codec, svc, stream, gw>>

FnServe ==
    /\ fn.pc = "in" /\ fn.f = "Serve"
    /\ fn' = [fn EXCEPT !.pc = "out", !.served = Serve(fn.keys, fn.route, fn.header)]
    /\ UNCHANGED <<tmVars, codec, svc, stream, gw>>

FnFilterPipelines ==
    /\ fn.pc = "in" /\ fn.f = "FilterPipelines"
    /\ fn' = [fn EXCEPT !.pc = "out",
                 !.filtered = FilterPipelines(fn.items, fn.search, fn.paused, fn.archived)]
    /\ UNCHANGED <<tmVars, codec, svc, stream, gw>>

FnFilterJobs ==
    /\ fn.pc = "in" /\ fn.f = "FilterJobs"
    /\ fn' = [fn EXCEPT !.pc = "out",
                 !.filtered = FilterJobs(fn.items, fn.search, fn.paused)]
    /\ UNCHANGED <<tmVars, codec, svc, stream, gw>>

MapInit == TMInit({"req"}, 0, FALSE) /\ ~static /\ margin = 0
           /\ codec = CodecIdle /\ svc = SvcIdle /\ FnInit /\ stream = StreamIdle /\ gw = GwIdle

MapNext ==
    \/ FnMapStatus \/ FnMapBuildToRun \/ FnWrapper \/ FnHandler
    \/ FnGetBuildDetails \/ FnCancel \/ FnServe \/ FnFilterPipelines \/ FnFilterJobs

MapSpec == MapInit /\ [][MapNext]_vars

\* The service layer alone: every request is one call of the Service.
SvcInit == TMInit({"req"}, 0, FALSE) /\ ~static /\ margin = 0
           /\ codec = CodecIdle /\ svc = SvcIdle /\ fn = FnIdle /\ stream = StreamIdle /\ gw = GwIdle

SvcNext ==
    \E i \in SvcRequests :
        \/ SvcTriggerRun(i)
        \/ SvcInitialStatus(i)
        \/ SvcGetRun(i)
        \/ SvcStreamRunEvents(i)
        \/ SvcCancelRun(i)

SvcSpec == SvcInit /\ [][SvcNext]_vars

\* A StreamBuildEvents call with its caller.
StreamSpecInit == TMInit({"req"}, 0, FALSE) /\ ~static /\ margin = 0
                  /\ codec = CodecIdle /\ svc = SvcIdle /\ fn = FnIdle /\ StreamInit /\ gw = GwIdle

StreamNext == StreamOpen \/ StreamScan \/ StreamSelect \/ StreamProcess \/ StreamCancel

StreamSpec == StreamSpecInit /\ [][StreamNext]_vars

\* Gateway.Start with its caller and the server, the goroutines scheduled
\* fairly; the server need not fail and the caller need not cancel.
GwInit == TMInit({"req"}, 0, FALSE) /\ ~static /\ margin = 0
          /\ codec = CodecIdle /\ svc = SvcIdle /\ fn = FnIdle /\ stream = StreamIdle
          /\ gw = GwIdle

GwNext ==
    \/ GwStart \/ GwListen \/ GwAccept \/ GwFinish \/ GwReuse \/ GwServeFail
    \/ GwServeClosed
    \/ GwSend \/ GwRecv \/ GwCancel \/ GwCtxDone \/ GwShutdown

GwSpec ==
    /\ GwInit /\ [][GwNext]_vars
    /\ WF_vars(GwStart) /\ WF_vars(GwListen) /\ WF_vars(GwServeClosed) /\ WF_vars(GwSend)
    /\ WF_vars(GwRecv) /\ WF_vars(GwCtxDone) /\ WF_vars(GwShutdown)

-----------------------------------------------------------------------------
(* Properties of doRequest (specification Spec) *)

Returned(t) == th[t].pc = "done" /\ th[t].op = "req"

Is401(a) == a.kind = "resp" /\ a.status = StatusUnauthorized

First401(t) == Len(th[t].att) >= 1 /\ Is401(th[t].att[1])

N401(t) == Cardinality({i \in 1..Len(th[t].att) : Is401(th[t].att[i])})

\* C1 (as claimed): whenever the first attempt of a request returns 401,
\* exactly one retry is issued, with a token obtained after the invalidation;
\* a second 401 gives the caller ErrUnauthorized; never a third attempt.
\* (Stated for a gateway that logs in with a user name and a password, where
\* fetching a token is the configured way to obtain one.)
C1_RetryAlwaysIssued ==
    \A t \in Threads : ~static =>
        /\ Len(th[t].att) <= 2
        /\ (Returned(t) /\ First401(t)) =>
               /\ Len(th[t].att) = 2
               /\ th[t].att[2].tok \notin th[t].seenAtInv
        /\ (Returned(t) /\ Len(th[t].att) = 2 /\ Is401(th[t].att[2])) =>
               th[t].res = ErrUnauthorized

\* C1 (amended): after a 401 on the first attempt the token is invalidated and
\* requested again; when that GetToken succeeds exactly one retry is issued,
\* carrying the token it returned (none of the tokens cached before the
\* invalidation); when it fails no retry is issued and the caller receives the
\* token error.  A retry that returns 401 too gives the caller ErrUnauthorized,
\* and no request makes more than two attempts.
C1_RetryOnceAfter401 ==
    \A t \in Threads :
        /\ Len(th[t].att) <= 2
        /\ Len(th[t].att) = 2 => (First401(t) /\ th[t].nInv = 1)
        /\ (Returned(t) /\ First401(t) /\ th[t].res # RefreshTokenError) =>
               /\ Len(th[t].att) = 2
               /\ th[t].att[2].tok = th[t].tok
               /\ th[t].att[2].tok \notin th[t].seenAtInv
        /\ (Returned(t) /\ First401(t) /\ th[t].res = RefreshTokenError) =>
               Len(th[t].att) = 1
        /\ (Returned(t) /\ Len(th[t].att) = 2 /\ Is401(th[t].att[2])) =>
               th[t].res = ErrUnauthorized

\* A request got 401 twice, with two different tokens, and returned ErrUnauthorized.
C1_Witness ==
    \E t \in Threads :
        /\ Returned(t)
        /\ N401(t) = 2
        /\ th[t].att[1].tok # EmptyToken
        /\ th[t].att[2].tok \notin {EmptyToken, th[t].att[1].tok}
        /\ th[t].res = ErrUnauthorized

\* C6 (as claimed): every 401 response doRequest observes, on the first attempt
\* or on the retry, is followed by exactly one InvalidateToken call.
C6_InvalidatePerEvery401 ==
    \A t \in Threads : Returned(t) => th[t].nInv = N401(t)

\* C6 (amended): InvalidateToken is called exactly once for a 401 response to
\* the first attempt and is not called for any other response, a 401 response
\* to the retry included: a request calls it at most once.
C6_InvalidateOncePerFirst401 ==
    \A t \in Threads :
        /\ th[t].nInv <= 1
        /\ Returned(t) => th[t].nInv = (IF First401(t) THEN 1 ELSE 0)

\* A request whose two attempts both got 401 has invalidated once.
C6_Witness ==
    \E t \in Threads : Returned(t) /\ N401(t) = 2 /\ th[t].nInv = 1

\* C7 (as claimed): with a static bearer token configured,
\* fetchTokenFromConcourse is never executed, whatever the backend answers.
C7_StaticTokenNeverFetches == static => nFetch = 0

\* C8 (as claimed): a transport-level failure of the HTTP call is not retried
\* and reaches the caller as ErrProviderUnavailable, which the HTTP layer
\* reports as 502 "provider temporarily unavailable".
C8_TransportFailureIsUnavailable ==
    \A t \in Threads :
        (Returned(t) /\ Len(th[t].att) >= 1 /\ th[t].att[1].kind = "error") =>
            /\ Len(th[t].att) = 1
            /\ th[t].res = ErrProviderUnavailable
            /\ handleServiceError(th[t].res).status = StatusBadGateway

-----------------------------------------------------------------------------
(* Properties of the TokenManager (specifications TMSpec and RaceSpec) *)

GetReturned(t) == th[t].pc = "done" /\ th[t].op = "get"

AllReturned == \A t \in Threads : GetReturned(t)

C3_OneFetchInFlight ==
    Cardinality({t \in Threads : th[t].pc = "r_fetch"}) <= 1

\* A fetch is in flight while another goroutine waits for the write lock.
C3_Witness ==
    \E t, u \in Threads :
        th[t].pc = "r_fetch" /\ th[u].pc \in {"r_lock", "i_lock"}

\* C4: a GetToken whose check under the read lock finds a token cached with
\* now < expiry - margin returns that token with no error, starts no fetch
\* and leaves token and expiry as they were.
C4_ValidTokenServedFromCache ==
    [][\A t \in Threads :
          ( /\ th[t].pc = "g_check" /\ th'[t].pc # "g_check"
            /\ token # EmptyToken /\ now < expiry - margin )
          => ( /\ th'[t].pc = "done"
               /\ th'[t].tok = token
               /\ th'[t].res = NoError
               /\ nFetch' = nFetch
               /\ token' = token
               /\ expiry' = expiry )]_vars

\* A GetToken returned a fetched token from the cache, without the write lock.
C4_Witness ==
    \E t \in Threads :
        /\ GetReturned(t) /\ th[t].path = "fast"
        /\ th[t].tok \notin {EmptyToken, StaticToken}
        /\ nFetch = 1

\* C5: InvalidateToken clears the token and the expiry, and a GetToken that
\* begins after an InvalidateToken returned never returns the token that call
\* cleared.
C5_InvalidateForcesRefetch ==
    /\ [](\A t \in Threads :
            (GetReturned(t) /\ th[t].res = NoError) => th[t].tok \notin th[t].clrAtStart)
    /\ [][\A t \in Threads :
            (th[t].pc = "i_clear" /\ th'[t].pc # "i_clear")
            => (token' = EmptyToken /\ expiry' = ZeroTime)]_vars

\* A GetToken that began after a token was invalidated returned another one.
C5_Witness ==
    \E t \in Threads :
        /\ GetReturned(t) /\ th[t].res = NoError
        /\ th[t].clrAtStart # {}
        /\ th[t].tok # EmptyToken

-----------------------------------------------------------------------------
(* Properties of the run identifier codec (specification CodecSpec) *)

NoColon(name) == \A i \in 1..Len(name) : name[i] # ":"

Same4(r, q) ==
    /\ r.Team = q.Team /\ r.Pipeline = q.Pipeline
    /\ r.Job = q.Job /\ r.BuildID = q.BuildID

WellFormedRef(r) ==
    /\ r.Team # <<>> /\ r.Pipeline # <<>> /\ r.Job # <<>>
    /\ NoColon(r.Team) /\ NoColon(r.Pipeline) /\ NoColon(r.Job)
    /\ r.BuildID >= 0

\* C9: for non-empty team, pipeline and job without a colon and a build id
\* >= 0, ParseRunRef(ID(...)) succeeds and returns the same four values.
C9_ParseOfIDRoundTrips ==
    (codec.src = "ref" /\ codec.pc \in {"parsed", "encoded"} /\ WellFormedRef(codec.ref0))
    => (codec.res.ok /\ Same4(codec.res.ref, codec.ref0))

\* A reference with a build id of two digits went through ID and ParseRunRef.
C9_Witness ==
    /\ codec.src = "ref" /\ codec.pc = "parsed"
    /\ WellFormedRef(codec.ref0) /\ codec.ref0.BuildID >= 10
    /\ codec.res.ok /\ codec.str[Len(codec.str)] # "0"

\* C10 (as claimed): ID(ParseRunRef(s)) = s for every run id s that ParseRunRef
\* accepts.  (Stated here only for the accepted ids that the wire format calls
\* well-formed: four non-empty segments, the fourth of decimal digits alone.)
C10_IDOfParseRoundTrips ==
    ( /\ codec.src = "str" /\ codec.pc = "encoded"
      /\ WellFormedRef(codec.res.ref)
      /\ \A i \in 1..Len(codec.str) : codec.str[i] \notin {"+", "-"} )
    => codec.out = codec.str

\* An optional sign followed by one decimal digit or more.
IntegerText(s) ==
    LET digits == IF Len(s) > 0 /\ s[1] \in {"+", "-"} THEN Tail(s) ELSE s
    IN Len(digits) >= 1 /\ \A i \in 1..Len(digits) : IsDigit(digits[i])

\* The texts of the integers below zero.
NegativeText(s) ==
    /\ IntegerText(s) /\ s[1] = "-"
    /\ \E i \in 2..Len(s) : s[i] # "0"

\* A run id the wire format calls malformed.
Malformed(s) ==
    LET parts == Split(s) IN
    \/ Len(parts) # 4
    \/ \E i \in 1..Len(parts) : parts[i] = <<>>
    \/ ~IntegerText(parts[4])
    \/ NegativeText(parts[4])

\* C11 (as claimed): ParseRunRef returns an error for every string that has
\* not exactly four colon-delimited segments, for every string with an empty
\* segment, and for every string whose fourth segment is not an integer or is
\* a negative integer.
C11_ParseRejectsMalformed ==
    (codec.src = "str" /\ codec.pc \in {"parsed", "encoded"} /\ Malformed(codec.str))
    => ~codec.res.ok

-----------------------------------------------------------------------------
(* Properties of the service layer (specification SvcSpec) *)

TriggerReturned(i) == svc.req[i].op = "TriggerRun" /\ svc.req[i].pc = "done"

TriggerSucceeded(i) == TriggerReturned(i) /\ svc.req[i].res = NoError

NCreateBuild(i) ==
    Cardinality({k \in 1..Len(svc.req[i].calls) : svc.req[i].calls[k].call = "CreateBuild"})

CreatedBuild(i) ==
    /\ Len(svc.req[i].calls) >= 1
    /\ svc.req[i].calls[1].call = "CreateBuild"
    /\ svc.req[i].calls[1].returned >= 1

\* team:pipeline:job:<build id> of a job of the registry
RunIDOf(jobID, buildID) ==
    Jobs[jobID].Ref.team.s \o <<":">> \o Jobs[jobID].Ref.pipeline.s \o <<":">>
        \o Jobs[jobID].Ref.job.s \o <<":">> \o FormatInt(buildID)

C13_EveryTriggerCreatesItsBuild ==
    /\ \A i \in SvcRequests : (TriggerReturned(i) /\ svc.req[i].reached) => NCreateBuild(i) = 1
    /\ \A i, j \in SvcRequests :
          (i # j /\ TriggerSucceeded(i) /\ TriggerSucceeded(j)) =>
              svc.req[i].calls[1].returned # svc.req[j].calls[1].returned
    /\ Cardinality({i \in SvcRequests : CreatedBuild(i)}) = svc.builds

\* Two TriggerRun calls for one job with one idempotency key both succeeded.
C13_Witness ==
    \E i, j \in SvcRequests :
        /\ i # j /\ TriggerSucceeded(i) /\ TriggerSucceeded(j)
        /\ svc.req[i].jobID = svc.req[j].jobID
        /\ svc.req[i].key = "key-1" /\ svc.req[j].key = "key-1"
        /\ svc.req[i].run.RunID # svc.req[j].run.RunID

\* C14 (as claimed): two trigger requests for the same job with the same
\* non-empty idempotency key create at most one backend build.
C14_SameKeyCreatesOneBuild ==
    \A i, j \in SvcRequests :
        ( /\ i # j
          /\ svc.req[i].op = "TriggerRun" /\ svc.req[j].op = "TriggerRun"
          /\ svc.req[i].jobID = svc.req[j].jobID
          /\ svc.req[i].key # "" /\ svc.req[i].key = svc.req[j].key )
        => ~(CreatedBuild(i) /\ CreatedBuild(j))

RunOps == {"GetRun", "StreamRunEvents", "CancelRun"}

\* C15: GetRun, StreamRunEvents and CancelRun on a run id that ParseRunRef
\* rejects return the service's run-not-found error, make no call of the
\* client and write nothing to the sink.
C15_RejectedRunIDIsNotFound ==
    \A i \in SvcRequests :
        ( /\ svc.req[i].pc = "done" /\ svc.req[i].op \in RunOps
          /\ ~ParseRunRef(svc.req[i].runID).ok )
        => ( /\ svc.req[i].res = ServiceErrRunNotFound
             /\ svc.req[i].calls = <<>>
             /\ svc.req[i].written = 0 )

\* Each of the three operations has returned for a run id that is rejected:
\* here StreamRunEvents for a build id that is no number, next to a stream
\* that wrote an event.
C15_Witness ==
    \E i, j \in SvcRequests :
        /\ svc.req[i].pc = "done" /\ svc.req[i].op = "StreamRunEvents"
        /\ svc.req[i].runID = <<"a", ":", "p", ":", "j", ":", "x">>
        /\ svc.req[i].res = ServiceErrRunNotFound
        /\ svc.req[j].pc = "done" /\ svc.req[j].op = "StreamRunEvents"
        /\ svc.req[j].written = 1

\* A provider_ref that lacks team, pipeline or job, or holds another value
\* than a string for one of them.
IncompleteRef(job) ==
    \E k \in {"team", "pipeline", "job"} : job.Ref[k].type # "string"

\* C16: TriggerRun returns job-not-found for a job id the registry lacks, and
\* the error of buildJobRef for a job whose provider_ref lacks team, pipeline
\* or job or holds a non-string for one; in both cases it makes no call of
\* the client (every token fetch happens inside one).
C16_TriggerRunRejectsBadJob ==
    \A i \in SvcRequests : TriggerReturned(i) =>
        LET r == svc.req[i] IN
        /\ r.jobID \notin DOMAIN Jobs =>
              (r.res = ServiceErrJobNotFound /\ r.calls = <<>> /\ ~r.reached)
        /\ (r.jobID \in DOMAIN Jobs /\ IncompleteRef(Jobs[r.jobID])) =>
              (r.res = BuildJobRefError /\ r.calls = <<>> /\ ~r.reached)

\* One TriggerRun named a job that is not registered, another a job whose
\* pipeline is a number; the backend saw neither.
C16_Witness ==
    \E i, j \in SvcRequests :
        /\ TriggerReturned(i) /\ svc.req[i].jobID = "job_missing"
        /\ svc.req[i].res = ServiceErrJobNotFound
        /\ TriggerReturned(j) /\ svc.req[j].jobID = "job_numpipeline"
        /\ svc.req[j].res = BuildJobRefError
        /\ svc.builds = 0

-----------------------------------------------------------------------------
(* Properties of the mapping functions (specification MapSpec) *)

Applied(f) == fn.pc = "out" /\ fn.f = f

\* C17: mapStatus gives queued for pending, running for started, succeeded for
\* succeeded, failed for failed, canceled for aborted, errored for errored and
\* unknown for every other string, the empty one included.
C17_MapStatusTable ==
    Applied("mapStatus") =>
        fn.runStatus =
            (IF fn.status = "pending" THEN "queued"
             ELSE IF fn.status = "started" THEN "running"
             ELSE IF fn.status = "succeeded" THEN "succeeded"
             ELSE IF fn.status = "failed" THEN "failed"
             ELSE IF fn.status = "aborted" THEN "canceled"
             ELSE IF fn.status = "errored" THEN "errored"
             ELSE "unknown")

\* mapStatus was applied to a string that differs from a backend status in
\* its case only.
C17_Witness ==
    Applied("mapStatus") /\ fn.status = "Pending" /\ fn.runStatus = "unknown"

\* What C18 asks of one timestamp field, for a backend value that is no
\* negative number.
TimestampAsClaimed(backend, field) ==
    /\ backend = 0 => ~field.set
    /\ backend > 0 => (field.set /\ field.unix = backend)

\* C18 (as claimed): in the Run of mapBuildToRun, each of created_at,
\* started_at and finished_at whose backend value is zero is left unset, never
\* reported as the instant of the epoch, and a backend value above zero sets
\* the field.
C18_ZeroTimestampsUnset ==
    Applied("mapBuildToRun") =>
        /\ TimestampAsClaimed(fn.build.CreateTime, fn.run.CreatedAt)
        /\ TimestampAsClaimed(fn.build.StartTime, fn.run.StartedAt)
        /\ TimestampAsClaimed(fn.build.EndTime, fn.run.FinishedAt)

\* C19: a client call whose final response has a status outside 200..299
\* returns ErrRunNotFound for 404, ErrUnauthorized for 401 and 403,
\* ErrProviderUnavailable for 502 and 503 and a ProviderError with that very
\* code for every other status; it never returns success for such a response.
C19_NonSuccessIsConverted ==
    (Applied("wrapper") /\ ~(fn.code >= 200 /\ fn.code <= 299)) =>
        /\ fn.res # NoError
        /\ fn.res =
            (IF fn.code = 404 THEN ErrRunNotFound
             ELSE IF fn.code \in {401, 403} THEN ErrUnauthorized
             ELSE IF fn.code \in {502, 503} THEN ErrProviderUnavailable
             ELSE ProviderError(fn.code))

\* AbortBuild got a 409 and returned a ProviderError with the code 409.
C19_Witness ==
    /\ Applied("wrapper") /\ fn.call = "AbortBuild" /\ fn.code = 409
    /\ fn.res = ProviderError(409)

\* The kinds of error that handleServiceError knows.
KnownKinds ==
    {"service.ErrJobNotFound", "service.ErrRunNotFound", "provider.ErrJobNotFound",
     "provider.ErrRunNotFound", "provider.ErrUnauthorized",
     "provider.ErrProviderUnavailable", "provider.ProviderError"}

\* What C20 asks of the response to one error.
ErrorResponseAsClaimed(err, resp) ==
    /\ err.kind = "provider.ProviderError" =>
          resp.status = (IF err.code >= 400 /\ err.code <= 499 THEN err.code ELSE 502)
    /\ err.kind \notin KnownKinds => resp.status = 500
    /\ DOMAIN resp.error = {"message", "code", "request_id"}
    /\ resp.error.code = resp.status

-----------------------------------------------------------------------------
(* Properties of the credential cache under concurrency *)

Fetching(t) == th[t].pc = "r_fetch"

\* The positions at which a goroutine holds tm.mu.
HoldsShared(t) == th[t].pc = "g_check"

HoldsExclusive(t) == th[t].pc \in {"r_check", "r_fetch", "i_clear"}

C29_CredentialAccessedUnderLock ==
    /\ [](/\ Cardinality(writer) <= 1
          /\ writer # {} => readers = {}
          /\ \A t \in Threads :
                /\ HoldsShared(t) <=> t \in readers
                /\ HoldsExclusive(t) <=> t \in writer)
    /\ [][(token' # token \/ expiry' # expiry) =>
             \E t \in Threads :
                /\ writer = {t} /\ readers = {}
                /\ HoldsExclusive(t) /\ th'[t] # th[t]
                /\ \A u \in Threads \ {t} : th'[u] = th[u]]_vars

\* InvalidateToken holds the lock exclusively on a cached token while a
\* GetToken call waits to read it.
C29_Witness ==
    \E t, u \in Threads :
        /\ th[t].pc = "i_clear" /\ writer = {t}
        /\ th[u].pc = "g_rlock"
        /\ token \notin {EmptyToken, StaticToken}

-----------------------------------------------------------------------------
(* Properties of doRequest and the credential cache *)

\* C26 (as claimed): no step of a request changes the cached token or its
\* expiry.
C26_RequestWritesNoLocalState ==
    [][token' = token /\ expiry' = expiry]_vars

\* The step of goroutine t stores a fetched token (refreshToken).
StoresFetched(t) ==
    /\ th[t].pc = "r_fetch" /\ th'[t].path = "fetch"
    /\ token' = th'[t].tok /\ expiry' = th'[t].fexp

\* The step of goroutine t clears the cache (InvalidateToken), which doRequest
\* calls only after a 401 on its first attempt.
ClearsCache(t) ==
    /\ th[t].pc = "i_clear"
    /\ Len(th[t].att) = 1 /\ th[t].att[1].status = StatusUnauthorized
    /\ token' = EmptyToken /\ expiry' = ZeroTime

\* C26 (amended): a request writes the credential cache, and only in two
\* ways: refreshToken stores the fetched token with its expiry, and
\* InvalidateToken, after a 401 on the first attempt, empties the token and
\* zeroes the expiry; the configuration (static token flag, refresh margin)
\* is never written.
C26_RequestWritesOnlyTheCache ==
    [][/\ static' = static /\ margin' = margin
       /\ (token' # token \/ expiry' # expiry) =>
              \E t \in Threads : StoresFetched(t) \/ ClearsCache(t)]_vars

\* A request has returned after invalidating the token of its first attempt
\* and the cache now holds another, fetched, token.
C26_Witness ==
    \E t \in Threads :
        /\ Returned(t) /\ th[t].nInv = 1
        /\ token \notin {EmptyToken, StaticToken, th[t].att[1].tok}

\* C30: a request that invalidates after a 401 discards at most the token its
\* own 401 was answered for: when the cache already holds a token refreshed by
\* another request, it is left in place (so that N requests sharing a stale
\* token cause one fetch).
C30_Stale401KeepsRefreshedToken ==
    [][\A t \in Threads :
          ( /\ th[t].pc = "i_clear" /\ th'[t].pc # "i_clear"
            /\ Len(th[t].att) = 1 )
          => token \in {EmptyToken, th[t].att[1].tok}]_vars

-----------------------------------------------------------------------------
(* Properties of GetBuildDetails, Cancel, the router and the list filters *)

\* C21: when GetBuild succeeds and GetBuildPlan fails, GetBuildDetails returns
\* the build with a nil plan and no error; it returns an error exactly when
\* GetBuild fails (and then never calls GetBuildPlan).
C21_PlanFailureIsOmitted ==
    Applied("GetBuildDetails") =>
        /\ (fn.buildErr = NoError /\ fn.planErr # NoError) =>
              /\ fn.details.build /\ ~fn.details.plan
              /\ fn.details.err = NoError
        /\ fn.details.err # NoError <=> fn.buildErr # NoError
        /\ fn.buildErr # NoError =>
              /\ fn.details.err = fn.buildErr
              /\ ~fn.details.build /\ ~fn.details.plan
              /\ fn.details.calls = <<"GetBuild">>

C21_Witness ==
    /\ Applied("GetBuildDetails")
    /\ fn.buildErr = NoError /\ fn.planErr # NoError
    /\ fn.details.build /\ ~fn.details.plan

\* the errors of the provider's taxonomy a response of this status may become
Taxonomy(status) ==
    {ErrRunNotFound, ErrUnauthorized, ErrProviderUnavailable, ProviderError(status)}

\* C22: Cancel returns no error exactly when the final response of the abort
\* call has status 204 or 200; every other final status gives an error of the
\* provider's taxonomy.
C22_CancelSucceedsOn204Or200 ==
    Applied("Cancel") =>
        /\ fn.res = NoError <=> fn.code \in {StatusNoContent, StatusOK}
        /\ fn.code \notin {StatusNoContent, StatusOK} => fn.res \in Taxonomy(fn.code)

C22_Witness ==
    /\ Applied("Cancel") /\ fn.code = StatusNoContent /\ fn.res = NoError

\* the header is "Bearer", one space, and a configured key
BearerOfConfiguredKey(keys, header) ==
    \E k \in keys : header = Bearer \o <<" ">> \o k

SameLetter(a, b) == a = b \/ {a, b} = {"a", "A"} \/ {a, b} = {"b", "B"}

\* sub occurs in str, case ignored
OccursIgnoringCase(str, sub) ==
    \E i \in 1..(Len(str) + 1) :
        /\ i + Len(sub) - 1 <= Len(str)
        /\ \A j \in 1..Len(sub) : SameLetter(str[i + j - 1], sub[j])

\* the element satisfies every filter that was supplied
Satisfies(it, search, paused, archived) ==
    /\ search # <<>> => OccursIgnoringCase(it.Name, search)
    /\ paused # NilBool => it.Paused \in paused
    /\ archived # NilBool => it.Archived \in archived

\* C28: FilterPipelines and FilterJobs return the input elements that satisfy
\* every supplied filter, each once and in input order; with no filter they
\* return the input.
C28_FiltersSelectMatching ==
    (Applied("FilterPipelines") \/ Applied("FilterJobs")) =>
        LET Keep(it) == Satisfies(it, fn.search, fn.paused, fn.archived)
        IN /\ fn.filtered = SelectSeq(fn.items, Keep)
           /\ (fn.search = <<>> /\ fn.paused = NilBool /\ fn.archived = NilBool)
                 => fn.filtered = fn.items

\* A search in another case than the name, combined with a paused filter, kept
\* the second of two pipelines only.
C28_Witness ==
    /\ Applied("FilterPipelines")
    /\ fn.search = <<"B">> /\ fn.paused = BoolPtr(TRUE)
    /\ Len(fn.items) = 2 /\ fn.items[2].Name = <<"b">>
    /\ fn.filtered = <<fn.items[2]>>

-----------------------------------------------------------------------------
(* Properties of the streaming copy loop (specification StreamSpec) *)

\* the Write calls made on the sink, in order
Written(sink) ==
    LET IsWrite(c) == c.op = "Write"
        w == SelectSeq(sink, IsWrite)
    IN [i \in 1..Len(w) |-> w[i].data]

\* the frames of the non-empty lines of a body, in order
FramesOf(body) ==
    LET NonEmpty(l) == l # <<>>
        ls == SelectSeq(body, NonEmpty)
    IN [i \in 1..Len(ls) |-> <<"d", "a", "t", "a", ":", " ">> \o ls[i] \o <<"\n", "\n">>]

\* every Write on the sink is followed at once by a Flush
FlushedAfterEveryWrite(sink) ==
    \A i \in 1..Len(sink) :
        sink[i].op = "Write" => (i < Len(sink) /\ sink[i + 1].op = "Flush")

\* the stream was opened and ended without a cancellation and without a
\* failure of the connection to the backend or of the sink
EndedUndisturbed ==
    /\ stream.pc = "done" /\ stream.opened /\ ~stream.ctxDone
    /\ stream.err \notin {ReadError, WriteError, ContextCanceled}

\* C23: a stream that is neither canceled nor cut by a transport or sink
\* failure writes exactly the frames of the non-empty backend lines, in order
\* and once each, flushes a flushing sink after every frame, and is not ended
\* by a line it cannot relay.
C23_RelaysEveryNonEmptyLine ==
    EndedUndisturbed =>
        /\ Written(stream.sink) = FramesOf(stream.body)
        /\ stream.flusher => FlushedAfterEveryWrite(stream.sink)
        /\ stream.err = NoError

\* C24: the loop checks the context before it processes a line: a check that
\* finds the context canceled returns the context's error and writes nothing,
\* and no more than one frame is written after the cancellation.
C24_CancellationCheckedBeforeEachLine ==
    /\ [](stream.afterCancel <= 1)
    /\ [](stream.err = ContextCanceled => stream.pc = "done" /\ stream.ctxDone)
    /\ [][(stream.pc = "select" /\ stream.ctxDone) =>
             /\ stream'.pc = "done" /\ stream'.err = ContextCanceled
             /\ stream'.sink = stream.sink]_vars

\* The context was canceled between the check and the write of one line: that
\* frame was written, and the next check ended the loop before the frame of
\* the next line.
C24_Witness ==
    /\ stream.pc = "done" /\ stream.err = ContextCanceled
    /\ stream.afterCancel = 1
    /\ Len(Written(stream.sink)) < Len(FramesOf(stream.body))

-----------------------------------------------------------------------------
(* Properties of a failed fetch, of termination and of the returned token *)

InCall(t) == th[t].pc \notin {"idle", "done"}

\* C31: when the fetch inside refreshToken fails, GetToken returns the error
\* with no token, the cached token and expiry are as the failing call found
\* them, and the lock is released, so that another call can take it.
C31_FailedFetchLeavesCache ==
    [][\A t \in Threads :
          (th[t].pc = "r_fetch" /\ th'[t].path = "err" /\ th'[t] # th[t])
          => ( /\ th'[t].pc = "done"
               /\ th'[t].res = GetTokenError /\ th'[t].tok = EmptyToken
               /\ token' = token /\ expiry' = expiry
               /\ writer = {t} /\ writer' = {} /\ readers' = {} )]_vars

\* After a fetch that failed, a later GetToken attempted a fetch of its own
\* over a token kept by the failure.
C31_Witness ==
    \E t, u \in Threads :
        /\ GetReturned(t) /\ th[t].path = "err"
        /\ th[u].pc = "r_fetch" /\ nFetch >= 2
        /\ token # EmptyToken

\* C32: every GetToken and InvalidateToken call that has begun returns, and
\* when no call is in progress the lock is free.
C32_EveryCallReturns ==
    /\ \A t \in Threads : InCall(t) ~> (th[t].pc = "done")
    /\ []((\A t \in Threads : ~InCall(t)) => (writer = {} /\ readers = {}))

\* A call waits for the lock while another goroutine holds it exclusively
\* for a fetch.
C32_Witness ==
    \E t, u \in Threads :
        /\ th[t].pc \in {"g_rlock", "i_lock"}
        /\ th[u].pc = "r_fetch" /\ writer = {u}

\* C38: a GetToken that reports success returns a non-empty token, which is
\* the static token or one a fetch delivered.
C38_SuccessMeansToken ==
    \A t \in Threads :
        (GetReturned(t) /\ th[t].res = NoError)
        => (th[t].tok # EmptyToken /\ th[t].tok \in issued \cup {StaticToken})

-----------------------------------------------------------------------------
(* Properties of the retried request (specification CreateSpec) *)

\* C33: the retry after a 401 carries the request of the first attempt: the
\* body the retry delivers is the complete body CreateBuild handed doRequest.
C33_RetryCarriesSameBody ==
    \A t \in Threads :
        (th[t].op = "create" /\ Len(th[t].att) = 2)
        => (th[t].att[2].body = th[t].body /\ th[t].att[1].body = th[t].body)

-----------------------------------------------------------------------------
(* Properties of the service layer's use of the backend and of run ids *)

\* C34: a TriggerRun that returns an error has created no build on the
\* backend.
C34_FailedTriggerCreatesNothing ==
    \A i \in SvcRequests :
        (TriggerReturned(i) /\ svc.req[i].res # NoError) => ~CreatedBuild(i)

\* C35: the run id of the reference Adapter.Trigger builds for a job of the
\* registry (any strings as team, pipeline and job) and a build of the
\* backend (id >= 1) is accepted by ParseRunRef and decodes to the same team,
\* pipeline, job and build id.
C35_TriggeredRunIDParsesBack ==
    (codec.src = "ref" /\ codec.pc \in {"parsed", "encoded"} /\ codec.ref0.BuildID >= 1)
    => (codec.res.ok /\ Same4(codec.res.ref, codec.ref0))

\* the request has acted on a build of the backend: the build and the team,
\* pipeline and job of the reference it acted through
ActedOn(i) ==
    LET r == svc.req[i] IN
    IF r.pc = "done" /\ Len(r.calls) >= 1
    THEN IF r.op = "TriggerRun"
         THEN IF r.calls[1].returned >= 1 THEN {r.calls[1].returned} ELSE {}
         ELSE IF r.op \in {"GetRun", "CancelRun"} THEN {r.calls[1].id} ELSE {}
    ELSE {}

SameJob(r, q) == r.Team = q.Team /\ r.Pipeline = q.Pipeline /\ r.Job = q.Job

\* C36: GetRun and CancelRun reach a build only through a run id that names
\* the build's own team, pipeline and job: two requests whose references
\* differ in team, pipeline or job never act on the same backend build.
C36_RunIDNamesItsBuild ==
    \A i, j \in SvcRequests :
        (ActedOn(i) # {} /\ ActedOn(i) = ActedOn(j)) => SameJob(svc.req[i].ref, svc.req[j].ref)

\* C37: the events endpoint answers a run id that does not parse with the
\* structured not-found error, status 404, and with nothing of an event
\* stream (no success status, no event) before it.
C37_StreamOfBadRunIDIsNotFound ==
    (Applied("handler") /\ fn.endpoint = "StreamEvents" /\ fn.err = ServiceErrRunNotFound)
    => ( /\ fn.resp.status = StatusNotFound
         /\ fn.resp.type = "application/json"
         /\ fn.resp = respondError(StatusNotFound, "run not found") )

-----------------------------------------------------------------------------
(* Properties of Gateway.Start (specification GwSpec) *)

\* C39: Start returns only after the context is canceled or the server's
\* result has arrived; after a cancellation it shuts the server down and
\* returns nil when the shutdown succeeds; the goroutine's send on the result
\* channel never has to wait, and once Start has returned the goroutine
\* terminates, whichever branch Start took.
C39_StartAndServerGoroutineTerminate ==
    /\ [](gw.main = "returned" =>
            \/ gw.via = "server" /\ gw.srv = "exited"
            \/ gw.via = "ctx" /\ gw.ctxDone /\ gw.closed)
    /\ []((gw.main = "returned" /\ gw.via = "ctx" /\ gw.shutdownErr = NoError)
            => gw.res = NoError)
    /\ [](gw.srv = "sending" => ENABLED GwSend)
    /\ (gw.main = "returned") ~> (gw.srv = "exited")

\* Start took the cancellation branch and returned nil while the server's
\* result, sent by the goroutine afterwards, stays in the channel unread.
C39_Witness ==
    /\ gw.main = "returned" /\ gw.via = "ctx" /\ gw.res = NoError
    /\ gw.srv = "exited" /\ gw.chan = <<ErrServerClosed>>

====
